---- MODULE Spec2Model ----
(***************************************************************************)
(* OpenLog: syslog ingestion (frame decoder, syslog parser, log store) and *)
(* the alert engine (scheduler, evaluator, cooldown tracker, webhook).     *)
(*                                                                         *)
(* Text is modelled as a sequence of characters, each character a string.  *)
(* The characters "NUL", "C3", "A9", "e'" and "FFFD" stand for the NUL     *)
(* byte, the two bytes of the UTF-8 encoding of U+00E9, the decoded        *)
(* character U+00E9 and the replacement character U+FFFD.                  *)
(***************************************************************************)
EXTENDS Integers, Sequences, FiniteSets, TLC

VARIABLES
    \* ---- SyslogServer and LogDatabase (ingestion) ----
    connections,     \* SyslogServer.connections: the open sockets
    messageBuffers,  \* SyslogServer.messageBuffers: socket -> retained text
    logs,            \* rows of the logs table, in insertion order
    wire,            \* socket -> bytes the peer has still to deliver
    sent,            \* socket -> the messages the peer framed into its stream
    emitted,         \* the strings handed to processMessage so far, each with
                     \* its socket, in call order
    dropped,         \* strings whose processMessage ended in its catch block
    closed,          \* the sockets that were closed or failed
    listening,       \* SyslogServer.server accepts connections
    dbClosed,        \* LogDatabase.close() was called on the server's store
    delivered,       \* observed socket -> the handler calls made for it, in
                     \* order (type "open", "data", "close" or "error", and
                     \* the bytes of a data event)
    \* ---- SyslogParser.parse, called on its own ----
    parseIn,         \* the argument of a call of processMessage
    parseOut,        \* <<>> before the call, then <<the record parse returned>>
    \* ---- ConfigManager and AlertEngine ----
    rawConfig,       \* <<what CONFIG_JSON or openlog.json holds>>, <<>> when
                     \* there is neither
    config,          \* ConfigManager.config: alerting.enabled and alerts
    phase,           \* "constructed", "started" or "stopped"
    checkInterval,   \* AlertEngine.checkInterval is set (the timer exists)
    isRunning,       \* AlertEngine.isRunning
    lastAlertTimes,  \* AlertEngine.lastAlertTimes: rule name -> <<time>>
    runs,            \* the runChecks executions in progress
    alertHistory,    \* rows of the alert_history table
    now,             \* the wall clock, in milliseconds
    lastEvent,       \* what the last step of the engine did
    lastRule,        \* the rule (index into config.alerts) it was about
    lastSuccess,     \* rule index -> <<time of its last successful dispatch>>
    evaluated,       \* the checkRule calls of the current (or last) batch that
                     \* have ended, in order: rule, how it ended, and what
                     \* became of its query
    lastQuery,       \* <<the runAlertQuery call>> the last step made, else <<>>
    tickSkipped,     \* a timer tick found isRunning set since the last batch
                     \* began
    \* ---- ConfigManager.checkThreshold ----
    thrIn,           \* the arguments of a call of checkThreshold
    thrOut,          \* its result
    \* ---- LogDatabase.runAlertQuery, called on its own ----
    qryIn,           \* the logs table and the arguments of a call
    qryOut,          \* <<>> before the call, then <<the count it returned and
                     \* the rows the statement counted>>
    \* ---- WebhookNotifier.sendAlert, called on its own ----
    hookIn,          \* the arguments of a call and what the endpoint does
    hookOut,         \* <<>> before the call, then <<the payload, the POST
                     \* requests made and how the call ended>>
    dbPath,          \* <<config.database.path>>, <<>> when it is not set
    files,           \* path of an SQLite file -> its logs table
    svcEvent,        \* the last operation of the service on a store
    svcOut           \* <<what that operation returned>>

ingestVars == <<connections, messageBuffers, logs, wire, sent, emitted, dropped,
                closed, listening, dbClosed, delivered>>
parseVars == <<parseIn, parseOut>>
engineVars == <<config, phase, checkInterval, isRunning, lastAlertTimes, runs,
                alertHistory, now, lastEvent, lastRule, lastSuccess, evaluated,
                lastQuery, tickSkipped>>
thrVars == <<thrIn, thrOut>>
qryVars == <<qryIn, qryOut>>
hookVars == <<hookIn, hookOut>>
svcVars == <<dbPath, files, svcEvent, svcOut>>
vars == <<ingestVars, parseVars, rawConfig, engineVars, thrVars, qryVars,
          hookVars, svcVars>>

\* What a step of the alert engine, and a step of ingestion, leaves alone.
EngineFrame ==
    UNCHANGED <<ingestVars, parseVars, rawConfig, thrVars, qryVars, hookVars,
                svcVars>>
IngestFrame ==
    UNCHANGED <<parseVars, rawConfig, engineVars, thrVars, qryVars, hookVars,
                svcVars>>

----------------------------------------------------------------------------
(* Characters and strings (JavaScript String operations).                  *)

Digits == {"0", "1", "2", "3", "4", "5", "6", "7", "8", "9"}

UpperCase == {"A", "B", "C", "D", "E", "F", "G", "H", "I", "J", "K", "L", "M",
              "N", "O", "P", "Q", "R", "S", "T", "U", "V", "W", "X", "Y", "Z"}

LowerCase == {"a", "b", "c", "d", "e", "f", "g", "h", "i", "j", "k", "l", "m",
              "n", "o", "p", "q", "r", "s", "t", "u", "v", "w", "x", "y", "z"}

\* What the regular expression class \s and String.trim treat as white space.
WhiteSpace == {" ", "\t", "\n", "\r", "\f"}

DigitVal(c) ==
    CASE c = "0" -> 0 [] c = "1" -> 1 [] c = "2" -> 2 [] c = "3" -> 3
      [] c = "4" -> 4 [] c = "5" -> 5 [] c = "6" -> 6 [] c = "7" -> 7
      [] c = "8" -> 8 [] c = "9" -> 9

\* s.substring(from), 0-based.
SubstringFrom(s, from) ==
    IF from >= Len(s) THEN <<>> ELSE SubSeq(s, from + 1, Len(s))

\* s.substring(from, to), 0-based, to exclusive, for 0 <= from <= to.
Substring(s, from, to) ==
    IF from >= Len(s) \/ to <= from THEN <<>>
    ELSE SubSeq(s, from + 1, IF to > Len(s) THEN Len(s) ELSE to)

\* s.startsWith(p)
StartsWith(s, p) == Len(s) >= Len(p) /\ SubSeq(s, 1, Len(p)) = p

\* s.indexOf(c) for a single character c: 0-based, -1 when absent.
IndexOf(s, c) ==
    IF \E i \in 1..Len(s) : s[i] = c
    THEN (CHOOSE i \in 1..Len(s) : s[i] = c /\ \A j \in 1..(i - 1) : s[j] # c) - 1
    ELSE -1

Range(seq) == {seq[i] : i \in 1..Len(seq)}

\* s.includes(c)
Includes(s, c) == \E i \in 1..Len(s) : s[i] = c

\* The number of leading characters of s that belong to class.
RECURSIVE LeadingRun(_, _)
LeadingRun(s, class) ==
    IF s # <<>> /\ Head(s) \in class THEN 1 + LeadingRun(Tail(s), class) ELSE 0

RECURSIVE TrailingRun(_, _)
TrailingRun(s, class) ==
    IF s # <<>> /\ s[Len(s)] \in class
    THEN 1 + TrailingRun(SubSeq(s, 1, Len(s) - 1), class) ELSE 0

\* s.trim()
Trim(s) ==
    LET a == LeadingRun(s, WhiteSpace)
    IN  IF a = Len(s) THEN <<>>
        ELSE SubSeq(s, a + 1, Len(s) - TrailingRun(s, WhiteSpace))

\* The value of a run of decimal digits.
RECURSIVE DigitsValue(_)
DigitsValue(s) ==
    IF s = <<>> THEN 0
    ELSE 10 * DigitsValue(SubSeq(s, 1, Len(s) - 1)) + DigitVal(s[Len(s)])

\* A JavaScript number that may be NaN: <<n>> is the number n, <<>> is NaN.
Num(n) == <<n>>
NaN == <<>>

\* parseInt(s, 10): leading white space is skipped, an optional sign is read,
\* then the longest run of digits; NaN when that run is empty.
ParseInt(s) ==
    LET t    == SubstringFrom(s, LeadingRun(s, WhiteSpace))
        sign == IF t # <<>> /\ Head(t) \in {"+", "-"} THEN Head(t) ELSE ""
        u    == IF sign = "" THEN t ELSE Tail(t)
        n    == LeadingRun(u, Digits)
    IN  IF n = 0 THEN NaN
        ELSE IF sign = "-" THEN Num(0 - DigitsValue(SubSeq(u, 1, n)))
        ELSE Num(DigitsValue(SubSeq(u, 1, n)))

\* Math.floor(x / d) for d > 0.
FloorDiv(x, d) == IF x = NaN THEN NaN ELSE Num(x[1] \div d)

\* x % d for d > 0: the remainder takes the sign of the dividend.
Remainder(x, d) ==
    IF x = NaN THEN NaN
    ELSE IF x[1] >= 0 THEN Num(x[1] % d) ELSE Num(0 - ((0 - x[1]) % d))

\* s.split(sep) for a single character sep.
RECURSIVE Split(_, _)
Split(s, sep) ==
    LET i == IndexOf(s, sep)
    IN  IF i = -1 THEN <<s>>
        ELSE <<Substring(s, 0, i)>> \o Split(SubstringFrom(s, i + 1), sep)

\* parts.join(" ")
RECURSIVE Join(_)
Join(parts) ==
    IF parts = <<>> THEN <<>>
    ELSE IF Len(parts) = 1 THEN parts[1]
    ELSE parts[1] \o <<" ">> \o Join(Tail(parts))

----------------------------------------------------------------------------
(* SyslogParser                                                            *)

\* An optional field that is not set.
Undefined == <<"undefined">>

\* p || "-" for a string p that may be undefined.
OrDash(p) == IF p = Undefined \/ p = <<>> THEN <<"-">> ELSE p

RECURSIVE LeadingRunNot(_, _)
LeadingRunNot(s, class) ==
    IF s # <<>> /\ Head(s) \notin class
    THEN 1 + LeadingRunNot(Tail(s), class) ELSE 0

\* The character at 1-based position i of s, "" beyond its end.
CharAt(s, i) == IF i >= 1 /\ i <= Len(s) THEN s[i] ELSE ""

Months == {<<"J", "a", "n">>, <<"F", "e", "b">>, <<"M", "a", "r">>,
           <<"A", "p", "r">>, <<"M", "a", "y">>, <<"J", "u", "n">>,
           <<"J", "u", "l">>, <<"A", "u", "g">>, <<"S", "e", "p">>,
           <<"O", "c", "t">>, <<"N", "o", "v">>, <<"D", "e", "c">>}

\* content.match(/^([A-Z][a-z]{2}\s+\d{1,2}\s+\d{2}:\d{2}:\d{2})\s+/):
\* ok, the offsets of the day and of the time within content, the length of
\* group 1 and of the whole match.
TimestampMatch(content) ==
    LET s1  == LeadingRun(SubstringFrom(content, 3), WhiteSpace)
        day == 3 + s1
        nd  == IF CharAt(content, day + 2) \in Digits THEN 2 ELSE 1
        s2  == LeadingRun(SubstringFrom(content, day + nd), WhiteSpace)
        tm  == day + nd + s2
        s3  == LeadingRun(SubstringFrom(content, tm + 8), WhiteSpace)
    IN  [ok |-> /\ CharAt(content, 1) \in UpperCase
                /\ CharAt(content, 2) \in LowerCase
                /\ CharAt(content, 3) \in LowerCase
                /\ s1 >= 1
                /\ CharAt(content, day + 1) \in Digits
                /\ s2 >= 1
                /\ \A i \in {1, 2, 4, 5, 7, 8} : CharAt(content, tm + i) \in Digits
                /\ \A i \in {3, 6} : CharAt(content, tm + i) = ":"
                /\ s3 >= 1,
         day |-> day, nd |-> nd, tm |-> tm,
         len1 |-> tm + 8, len0 |-> tm + 8 + s3]

\* Whether new Date(`${timestampMatch[1]} ${year}`) is a valid date: the month
\* abbreviation names a month and the day and the time are in range.
LegacyDateValid(content, m) ==
    /\ SubSeq(content, 1, 3) \in Months
    /\ DigitsValue(Substring(content, m.day, m.day + m.nd)) \in 1..31
    /\ DigitsValue(Substring(content, m.tm, m.tm + 2)) <= 23
    /\ DigitsValue(Substring(content, m.tm + 3, m.tm + 5)) <= 59
    /\ DigitsValue(Substring(content, m.tm + 6, m.tm + 8)) <= 59

\* new Date(timestamp) for an RFC 5424 timestamp is valid: the shape
\* YYYY-MM-DDThh:mm:ssZ with every part in range.
IsoDateValid(ts) ==
    /\ Len(ts) = 20
    /\ \A i \in {1, 2, 3, 4, 6, 7, 9, 10, 12, 13, 15, 16, 18, 19} : ts[i] \in Digits
    /\ ts[5] = "-" /\ ts[8] = "-" /\ ts[11] = "T"
    /\ ts[14] = ":" /\ ts[17] = ":" /\ ts[20] = "Z"
    /\ DigitsValue(SubSeq(ts, 6, 7)) \in 1..12
    /\ DigitsValue(SubSeq(ts, 9, 10)) \in 1..31
    /\ DigitsValue(SubSeq(ts, 12, 13)) <= 23
    /\ DigitsValue(SubSeq(ts, 15, 16)) <= 59
    /\ DigitsValue(SubSeq(ts, 18, 19)) <= 59

\* A Date is "now" (new Date()), "parsed" (a valid date read from the text)
\* or "invalid" (an Invalid Date).
parseTimestamp(timestamp) ==
    IF timestamp = <<"-">> THEN "now"
    ELSE IF IsoDateValid(timestamp) THEN "parsed" ELSE "now"

\* The length of a leading "[digits]" of t, 0 when t does not start with one.
PidLen(t) ==
    LET d == LeadingRun(SubstringFrom(t, 1), Digits)
    IN  IF CharAt(t, 1) = "[" /\ d >= 1 /\ CharAt(t, d + 2) = "]" THEN d + 2 ELSE 0

\* remaining.match(/^([^\s]+)\s+([^[\s]+)(?:\[(\d+)\])?:\s*(.*)/s)
HostAppMatch(remaining) ==
    LET h    == LeadingRunNot(remaining, WhiteSpace)
        s1   == LeadingRun(SubstringFrom(remaining, h), WhiteSpace)
        rest == SubstringFrom(remaining, h + s1)
        run  == LeadingRunNot(rest, WhiteSpace \union {"["})
        Good(k) == LET t == SubstringFrom(rest, k)
                   IN  \/ PidLen(t) > 0 /\ CharAt(t, PidLen(t) + 1) = ":"
                       \/ CharAt(t, 1) = ":"
        ks   == {k \in 1..run : Good(k)}
        k    == CHOOSE x \in ks : \A y \in ks : y <= x
        t    == SubstringFrom(rest, k)
        pid  == PidLen(t)
        tail == SubstringFrom(t, pid + 1)
    IN  IF h >= 1 /\ s1 >= 1 /\ ks # {}
        THEN [ok |-> TRUE,
              host |-> SubSeq(remaining, 1, h),
              app |-> SubSeq(rest, 1, k),
              pid |-> IF pid > 0 THEN SubSeq(t, 2, pid - 1) ELSE Undefined,
              msg |-> SubstringFrom(tail, LeadingRun(tail, WhiteSpace))]
        ELSE [ok |-> FALSE, host |-> <<>>, app |-> <<>>, pid |-> Undefined,
              msg |-> <<>>]

parseRFC3164(raw, facility, severity, content) ==
    LET timestampMatch == TimestampMatch(content)
        timestamp == IF timestampMatch.ok
                     THEN IF LegacyDateValid(content, timestampMatch)
                          THEN "parsed" ELSE "invalid"
                     ELSE "now"
        remaining == IF timestampMatch.ok
                     THEN SubstringFrom(content, timestampMatch.len0)
                     ELSE content
        hostAppMatch == HostAppMatch(remaining)
    IN  [facility |-> facility, severity |-> severity, version |-> Undefined,
         timestamp |-> timestamp,
         hostname |-> IF hostAppMatch.ok THEN OrDash(hostAppMatch.host) ELSE <<"-">>,
         appName |-> IF hostAppMatch.ok THEN OrDash(hostAppMatch.app) ELSE <<"-">>,
         procId |-> IF hostAppMatch.ok THEN hostAppMatch.pid ELSE Undefined,
         msgId |-> Undefined, structuredData |-> Undefined,
         message |-> IF hostAppMatch.ok THEN hostAppMatch.msg ELSE remaining,
         raw |-> raw]

\* parts[i] for a 0-based index i, undefined beyond the end.
Part(parts, i) == IF i + 1 <= Len(parts) THEN parts[i + 1] ELSE Undefined

\* part.endsWith("]") / part.startsWith("[") for a part that may be undefined
\* or empty.
EndsWithBracket(p) == p # Undefined /\ p # <<>> /\ p[Len(p)] = "]"
StartsWithBracket(p) == p # Undefined /\ p # <<>> /\ p[1] = "["

\* currentSD.match(/\[([^\s]+)([^\]]*)\]/)[1]: the group id, undefined when
\* the pattern has no match. The match starts at the leftmost "[" that is
\* followed by a character that is not white space and has a "]" further on;
\* the id is the longest run after it of characters that are not white space
\* and still have a "]" after them.
SdId(currentSD) ==
    LET Ends(i) == {m \in (i + 1)..Len(currentSD) :
                       /\ \A j \in (i + 1)..m : currentSD[j] \notin WhiteSpace
                       /\ \E k \in (m + 1)..Len(currentSD) : currentSD[k] = "]"}
        starts  == {i \in 1..Len(currentSD) :
                       currentSD[i] = "[" /\ Ends(i) # {}}
        i       == CHOOSE x \in starts : \A y \in starts : x <= y
        m       == CHOOSE x \in Ends(i) : \A y \in Ends(i) : y <= x
    IN  IF starts = {} THEN Undefined ELSE SubSeq(currentSD, i + 1, m)

\* The for loop of parseStructuredData from index i on, with currentSD and
\* inSD as they are there: the ids of the groups it records, and the index
\* of the first part it does not take in (the part after the one at which
\* it breaks, parts.length when it runs to the end).
RECURSIVE SdLoop(_, _, _, _)
SdLoop(parts, i, currentSD, inSD) ==
    IF i >= Len(parts) THEN [ids |-> {}, stop |-> Len(parts)]
    ELSE LET part == Part(parts, i)
             opens == StartsWithBracket(part) /\ ~inSD
             nowIn == inSD \/ opens
             sd    == IF opens THEN part
                      ELSE IF inSD THEN currentSD \o <<" ">> \o part
                      ELSE currentSD
             id    == IF SdId(sd) = Undefined THEN {} ELSE {SdId(sd)}
         IN  IF part = <<>> THEN SdLoop(parts, i + 1, currentSD, inSD)
             ELSE IF nowIn /\ EndsWithBracket(sd)
             THEN IF StartsWithBracket(Part(parts, i + 1))
                  THEN LET r == SdLoop(parts, i + 1, <<>>, FALSE)
                       IN  [ids |-> id \union r.ids, stop |-> r.stop]
                  ELSE [ids |-> id, stop |-> i + 1]
             ELSE SdLoop(parts, i + 1, sd, nowIn)

\* The keys of the record parseStructuredData returns, undefined when it
\* has none.
parseStructuredData(parts, startIndex) ==
    LET ids == SdLoop(parts, startIndex, <<>>, FALSE).ids
    IN  IF ids = {} THEN Undefined ELSE ids

\* A findMessageStart that returns the index of the closing part.
findMessageStartAtClose(parts, sdStart) ==
    LET hits == {i \in sdStart..(Len(parts) - 1) :
                    /\ EndsWithBracket(Part(parts, i))
                    /\ ~StartsWithBracket(Part(parts, i + 1))}
    IN  IF hits = {} THEN Len(parts)
        ELSE CHOOSE i \in hits : \A j \in hits : i <= j

findMessageStart(parts, sdStart) ==
    LET hits == {i \in sdStart..(Len(parts) - 1) :
                    /\ EndsWithBracket(Part(parts, i))
                    /\ ~StartsWithBracket(Part(parts, i + 1))}
    IN  IF hits = {} THEN Len(parts)
        ELSE (CHOOSE i \in hits : \A j \in hits : i <= j) + 1

parseRFC5424(raw, facility, severity, content) ==
    LET parts == Split(content, " ")
        p3 == Part(parts, 3)
        p4 == Part(parts, 4)
        p5 == Part(parts, 5)
        hasSD == p5 # <<"-">> /\ StartsWithBracket(p5)
        messageStart == IF hasSD THEN findMessageStart(parts, 5) ELSE 6
    IN  [facility |-> facility, severity |-> severity, version |-> <<"1">>,
         timestamp |-> parseTimestamp(OrDash(Part(parts, 0))),
         hostname |-> OrDash(Part(parts, 1)),
         appName |-> OrDash(Part(parts, 2)),
         procId |-> IF p3 = <<"-">> THEN Undefined ELSE p3,
         msgId |-> IF p4 = <<"-">> THEN Undefined ELSE p4,
         structuredData |-> IF hasSD THEN parseStructuredData(parts, 5)
                            ELSE Undefined,
         message |-> Trim(Join(SubstringFrom(parts, messageStart))),
         raw |-> raw]

\* The record parse returns when it finds no priority.
FallbackRecord(rawMessage) ==
    [facility |-> Num(16), severity |-> Num(6), version |-> Undefined,
     timestamp |-> "now", hostname |-> <<"-">>, appName |-> <<"-">>,
     procId |-> Undefined, msgId |-> Undefined, structuredData |-> Undefined,
     message |-> rawMessage, raw |-> rawMessage]

\* const facility = Math.floor(priValue / 8)
Facility(priValue) == FloorDiv(priValue, 8)

\* const severity = priValue % 8
Severity(priValue) == Remainder(priValue, 8)

parse(rawMessage0) ==
    LET rawMessage == Trim(rawMessage0)
        priEnd == IndexOf(rawMessage, ">")
    IN  IF StartsWith(rawMessage, <<"<">>) /\ priEnd > 0
        THEN LET priValue == ParseInt(Substring(rawMessage, 1, priEnd))
                 messageContent == Trim(SubstringFrom(rawMessage, priEnd + 1))
             IN  IF StartsWith(messageContent, <<"1", " ">>)
                 THEN parseRFC5424(rawMessage, Facility(priValue),
                                   Severity(priValue),
                                   SubstringFrom(messageContent, 2))
                 ELSE parseRFC3164(rawMessage, Facility(priValue),
                                   Severity(priValue), messageContent)
        ELSE FallbackRecord(rawMessage)

----------------------------------------------------------------------------
(* LogDatabase.insertLog and SyslogServer.processMessage                   *)

\* insertLog throws when the store has been closed (prepare fails), and when
\* log.timestamp.toISOString() does: on an Invalid Date.
insertLogThrows(logEntry) == dbClosed \/ logEntry.timestamp = "invalid"

\* The row insertLog writes (log.procId || null, log.msgId || null).
LogRow(logEntry) ==
    [timestamp |-> logEntry.timestamp,
     facility |-> logEntry.facility, severity |-> logEntry.severity,
     hostname |-> logEntry.hostname, appName |-> logEntry.appName,
     procId |-> IF logEntry.procId = <<>> THEN Undefined ELSE logEntry.procId,
     msgId |-> IF logEntry.msgId = <<>> THEN Undefined ELSE logEntry.msgId,
     message |-> logEntry.message, raw |-> logEntry.raw]

\* The entry processMessage builds: the parsed fields, raw: rawMessage.
LogEntry(rawMessage) == [parse(rawMessage) EXCEPT !.raw = rawMessage]

\* The logs table after processMessage(rawMessage): a thrown error is caught
\* and logged, and nothing is written.
processMessage(table, rawMessage) ==
    IF insertLogThrows(LogEntry(rawMessage)) THEN table
    ELSE Append(table, LogRow(LogEntry(rawMessage)))

\* A handler that stores the strings of msgs last first.
RECURSIVE processAllLastFirst(_, _)
processAllLastFirst(table, msgs) ==
    IF msgs = <<>> THEN table
    ELSE processMessage(processAllLastFirst(table, Tail(msgs)), Head(msgs))

\* The logs table after processMessage of each string of msgs, in order.
RECURSIVE processAll(_, _)
processAll(table, msgs) ==
    IF msgs = <<>> THEN table
    ELSE processAll(processMessage(table, Head(msgs)), Tail(msgs))

\* The strings among msgs whose processMessage ends in its catch block.
Thrown(msgs) == SelectSeq(msgs, LAMBDA m : insertLogThrows(LogEntry(m)))

----------------------------------------------------------------------------
(* SyslogServer: the socket handlers                                       *)

\* new TextDecoder().decode(data): UTF-8 decoding of one chunk on its own. A
\* byte sequence that is not complete within the chunk decodes to U+FFFD.
RECURSIVE Decode(_)
Decode(data) ==
    IF data = <<>> THEN <<>>
    ELSE IF Head(data) = "C3"
    THEN IF Len(data) >= 2 /\ data[2] = "A9"
         THEN <<"e'">> \o Decode(SubstringFrom(data, 2))
         ELSE <<"FFFD">> \o Decode(Tail(data))
    ELSE IF Head(data) = "A9" THEN <<"FFFD">> \o Decode(Tail(data))
    ELSE <<Head(data)>> \o Decode(Tail(data))

\* remaining.match(/^(\d+)\s/): the length of the digit run, 0 for no match.
LengthPrefix(remaining) ==
    LET nd == LeadingRun(remaining, Digits)
    IN  IF nd >= 1 /\ CharAt(remaining, nd + 1) \in WhiteSpace THEN nd ELSE 0

\* Drops one trailing CR: what /\r?\n/ takes away before the LF it splits at.
DropCR(line) ==
    IF line # <<>> /\ line[Len(line)] = "\r"
    THEN SubSeq(line, 1, Len(line) - 1) ELSE line

\* remaining.split(/\r?\n/)
SplitLines(remaining) ==
    LET parts == Split(remaining, "\n")
    IN  [i \in 1..Len(parts) |->
            IF i < Len(parts) THEN DropCR(parts[i]) ELSE parts[i]]

\* The strings processMessage is called with for the complete segments: each
\* segment whose trim() is not empty, trimmed.
TrimmedNonEmpty(segments) ==
    LET trimmed == [i \in 1..Len(segments) |-> Trim(segments[i])]
    IN  SelectSeq(trimmed, LAMBDA m : m # <<>>)

AllButLast(parts) == SubSeq(parts, 1, Len(parts) - 1)

\* A handler that falls through to the line rule while a frame is pending.
IncompleteFrameTriesLines(remaining) ==
    LET lines == SplitLines(remaining)
    IN  [out |-> TrimmedNonEmpty(AllButLast(lines)),
         remaining |-> lines[Len(lines)]]

\* The branch taken when a length prefix is present and the declared bytes
\* are not all there: break, nothing is emitted, the text is retained.
IncompleteFrame(remaining) == [out |-> <<>>, remaining |-> remaining]

\* One pass through the body of the while loop, for a remaining that is not
\* empty: the strings it hands to processMessage, the remaining it leaves,
\* and whether it leaves the loop by break.
\* A pass of the loop whose frame branch cuts the payload's length off the
\* text and forgets the prefix.
IterationForgetsPrefix(remaining) ==
    IF LengthPrefix(remaining) > 0
    THEN LET msgLength == DigitsValue(SubSeq(remaining, 1, LengthPrefix(remaining)))
             prefixLength == LengthPrefix(remaining) + 1
             totalLength == prefixLength + msgLength
         IN  IF Len(remaining) >= totalLength
             THEN [out |-> <<Substring(remaining, prefixLength, totalLength)>>,
                   remaining |-> SubstringFrom(remaining, msgLength),
                   break |-> FALSE]
             ELSE [out |-> <<>>, remaining |-> remaining, break |-> TRUE]
    ELSE LET lines == SplitLines(remaining)
             messages == Split(remaining, "NUL")
         IN  IF Len(lines) > 1
             THEN [out |-> TrimmedNonEmpty(AllButLast(lines)),
                   remaining |-> lines[Len(lines)],
                   break |-> FALSE]
             ELSE IF Includes(remaining, "NUL")
             THEN [out |-> TrimmedNonEmpty(AllButLast(messages)),
                   remaining |-> messages[Len(messages)],
                   break |-> FALSE]
             ELSE [out |-> <<>>, remaining |-> remaining, break |-> TRUE]

Iteration(remaining) ==
    IF LengthPrefix(remaining) > 0
    THEN LET msgLength == DigitsValue(SubSeq(remaining, 1, LengthPrefix(remaining)))
             prefixLength == LengthPrefix(remaining) + 1
             totalLength == prefixLength + msgLength
         IN  IF Len(remaining) >= totalLength
             THEN [out |-> <<Substring(remaining, prefixLength, totalLength)>>,
                   remaining |-> SubstringFrom(remaining, totalLength),
                   break |-> FALSE]
             ELSE [out |-> IncompleteFrame(remaining).out,
                   remaining |-> IncompleteFrame(remaining).remaining,
                   break |-> TRUE]
    ELSE LET lines == SplitLines(remaining)
             messages == Split(remaining, "NUL")
         IN  IF Len(lines) > 1
             THEN [out |-> TrimmedNonEmpty(AllButLast(lines)),
                   remaining |-> lines[Len(lines)],
                   break |-> FALSE]
             ELSE IF Includes(remaining, "NUL")
             THEN [out |-> TrimmedNonEmpty(AllButLast(messages)),
                   remaining |-> messages[Len(messages)],
                   break |-> FALSE]
             ELSE [out |-> <<>>, remaining |-> remaining, break |-> TRUE]

\* The while loop of the data handler: the strings handed to processMessage,
\* in order, and the text left in remaining when the loop ends.
RECURSIVE DecodeLoop(_)
DecodeLoop(remaining) ==
    IF remaining = <<>> THEN [out |-> <<>>, remaining |-> <<>>]
    ELSE LET it == Iteration(remaining)
         IN  IF it.break THEN [out |-> it.out, remaining |-> it.remaining]
             ELSE LET r == DecodeLoop(it.remaining)
                  IN  [out |-> it.out \o r.out, remaining |-> r.remaining]

\* The handler call e (its type, and the bytes of a data event) is added to
\* what was observed for socket.
Observed(socket, type, data) ==
    IF socket \in DOMAIN delivered
    THEN [delivered EXCEPT ![socket] = Append(@, [type |-> type, data |-> data])]
    ELSE delivered

\* A data handler that reads the buffer of some connection, not of its own.
ExistingOfSomeSocket(socket) == messageBuffers[CHOOSE s \in connections : TRUE]

\* this.messageBuffers.get(socket) || ""
Existing(socket) == messageBuffers[socket]

\* A close handler that discards the retained text.
FlushNothing(remaining) == <<>>

\* The strings the close handler hands to processMessage for the retained
\* text: remaining.trim(), unless it is empty.
Flush(remaining) ==
    IF Trim(remaining) # <<>> THEN <<Trim(remaining)>> ELSE <<>>

\* msgs, each tagged with the socket it came from.
Tagged(socket, msgs) == [i \in 1..Len(msgs) |-> [socket |-> socket, msg |-> msgs[i]]]

\* socket.open
Open(socket) ==
    /\ listening
    /\ socket \notin connections
    /\ socket \notin closed
    /\ connections' = connections \union {socket}
    /\ messageBuffers' = [s \in connections \union {socket} |->
                             IF s = socket THEN <<>> ELSE messageBuffers[s]]
    /\ delivered' = Observed(socket, "open", <<>>)
    /\ UNCHANGED <<logs, wire, sent, emitted, dropped, closed, listening,
                   dbClosed>>
    /\ IngestFrame

\* socket.data with the next n bytes of the peer's stream.
Data(socket, n) ==
    /\ socket \in connections
    /\ n \in 1..Len(wire[socket])
    /\ LET data == SubSeq(wire[socket], 1, n)
           text == Existing(socket) \o Decode(data)
           r    == DecodeLoop(text)
       IN  /\ messageBuffers' = [messageBuffers EXCEPT ![socket] = r.remaining]
           /\ delivered' = Observed(socket, "data", data)
           /\ emitted' = emitted \o Tagged(socket, r.out)
           /\ logs' = processAll(logs, r.out)
           /\ dropped' = dropped \o Thrown(r.out)
           /\ wire' = [wire EXCEPT ![socket] = SubstringFrom(wire[socket], n)]
    /\ UNCHANGED <<connections, sent, closed, listening, dbClosed>>
    /\ IngestFrame

\* socket.close, once the peer has delivered its whole stream, or once the
\* server has ended the socket in stop().
Close(socket) ==
    /\ socket \in connections
    /\ wire[socket] = <<>> \/ ~listening
    /\ LET out == Flush(messageBuffers[socket])
       IN  /\ emitted' = emitted \o Tagged(socket, out)
           /\ logs' = processAll(logs, out)
           /\ dropped' = dropped \o Thrown(out)
    /\ connections' = connections \ {socket}
    /\ messageBuffers' = [s \in connections \ {socket} |-> messageBuffers[s]]
    /\ closed' = closed \union {socket}
    /\ delivered' = Observed(socket, "close", <<>>)
    /\ UNCHANGED <<wire, sent, listening, dbClosed>>
    /\ IngestFrame

\* An error handler that forgets this.messageBuffers.delete(socket).
ErrorKeepsBuffer(socket) ==
    /\ socket \in connections
    /\ connections' = connections \ {socket}
    /\ closed' = closed \union {socket}
    /\ delivered' = Observed(socket, "error", <<>>)
    /\ UNCHANGED <<messageBuffers, logs, wire, sent, emitted, dropped,
                   listening, dbClosed>>
    /\ IngestFrame

\* socket.error
Error(socket) ==
    /\ socket \in connections
    /\ connections' = connections \ {socket}
    /\ messageBuffers' = [s \in connections \ {socket} |-> messageBuffers[s]]
    /\ closed' = closed \union {socket}
    /\ delivered' = Observed(socket, "error", <<>>)
    /\ UNCHANGED <<logs, wire, sent, emitted, dropped, listening, dbClosed>>
    /\ IngestFrame

\* The orders in which the for...of loop of stop() may meet the sockets of S.
Orderings(S) ==
    {o \in [1..Cardinality(S) -> S] :
        \A i, j \in 1..Cardinality(S) : i # j => o[i] # o[j]}

\* What the close handlers of the sockets of order hand to processMessage.
RECURSIVE FlushAll(_)
FlushAll(order) ==
    IF order = <<>> THEN <<>>
    ELSE Tagged(Head(order), Flush(messageBuffers[Head(order)]))
         \o FlushAll(Tail(order))

\* SyslogServer.stop(): socket.end() for every connection, server.stop(),
\* db.close(), with no await between them. closeInEnd: the runtime calls the
\* close handler of a socket inside socket.end(); otherwise it calls it from
\* the event loop, after stop() has returned, or not at all when the process
\* exits first.
SyslogServerStop(closeInEnd) ==
    /\ listening
    /\ IF closeInEnd
       THEN \E order \in Orderings(connections) :
              LET out  == FlushAll(order)
                  msgs == [k \in 1..Len(out) |-> out[k].msg]
              IN  /\ emitted' = emitted \o out
                  /\ logs' = processAll(logs, msgs)
                  /\ dropped' = dropped \o Thrown(msgs)
                  /\ connections' = {}
                  /\ messageBuffers' = <<>>
                  /\ closed' = closed \union connections
                  /\ delivered' =
                        [s \in DOMAIN delivered |->
                            IF s \in connections
                            THEN Append(delivered[s], [type |-> "close", data |-> <<>>])
                            ELSE delivered[s]]
       ELSE UNCHANGED <<emitted, logs, dropped, connections, messageBuffers,
                        closed, delivered>>
    /\ listening' = FALSE
    /\ dbClosed' = TRUE
    /\ UNCHANGED <<wire, sent>>
    /\ IngestFrame

----------------------------------------------------------------------------
(* The peers: the messages they send and how they frame them.              *)

\* hello
Hello ==
    <<"h", "e", "l", "l", "o">>

\* world!
World ==
    <<"w", "o", "r", "l", "d", "!">>

\* a LF b
WithLF ==
    <<"a", "\n", "b">>

\* 1 x: a payload that itself looks like a length prefix
DigitSpace ==
    <<"1", " ", "x">>

\* U+00E9 alone: one character, two bytes
EAcute ==
    <<"e'">>

\* abc LF de NUL fgh: ten bytes
TenBytes ==
    <<"a", "b", "c", "\n", "d", "e", "NUL", "f", "g", "h">>

\* <1>m
PriM ==
    <<"<", "1", ">", "m">>

\* 12: a line of digits only
Twelve ==
    <<"1", "2">>

\* 3 abc def: a line that starts with digits and a space
ThreeAbcDef ==
    <<"3", " ", "a", "b", "c", " ", "d", "e", "f">>

\* x
BodyX ==
    <<"x">>

\* README: an RFC 5424 message after its priority
Body5424 ==
    <<"1", " ", "2", "0", "2", "4", "-", "0", "1", "-", "0", "1", "T", "1",
      "2", ":", "0", "0", ":", "0", "0", "Z", " ", "h", "o", "s", "t", " ",
      "a", "p", "p", " ", "-", " ", "-", " ", "E", "r", "r", "o", "r", ":",
      " ", "f", "a", "i", "l", "e", "d">>

\* an RFC 3164 message after its priority
Body3164 ==
    <<"O", "c", "t", " ", "1", "1", " ", "2", "2", ":", "1", "4", ":", "1",
      "5", " ", "m", "y", "m", "a", "c", "h", "i", "n", "e", " ", "s", "u",
      "[", "1", "2", "]", ":", " ", "f", "a", "i", "l", "e", "d">>

\* a legacy timestamp that matches the pattern and is no date
BadDate3164 ==
    <<"<", "1", "3", ">", "X", "y", "z", " ", "9", "9", " ", "9", "9", ":",
      "9", "9", ":", "9", "9", " ", "h", "o", "s", "t", " ", "a", "p", "p",
      ":", " ", "m">>

\* no priority
NoPri ==
    <<"h", "e", "l", "l", "o", " ", "w", "o", "r", "l", "d">>

\* no closing >
NoClose ==
    <<"<", "1", "3", " ", "h", "e", "l", "l", "o">>

\* <abc>x
PriAbc ==
    <<"<", "a", "b", "c", ">", "x">>

\* <>x
PriEmpty ==
    <<"<", ">", "x">>

\* <12x>y: parseInt reads 12
PriDigitsThenText ==
    <<"<", "1", "2", "x", ">", "y">>

\* a leading blank before <5>z
LeadingBlank ==
    <<" ", "<", "5", ">", "z">>

\* x<5>: a priority that is not at the start
LaterPri ==
    <<"x", "<", "5", ">">>

\* The sockets of a behaviour are the domain of wire.
Sockets == DOMAIN wire

MaxFrames == 2

\* The non-empty sequences of at most MaxFrames elements of S.
FramesOf(S) == UNION {[1..n -> S] : n \in 1..MaxFrames}

OctetPayloads == {Hello, World, WithLF, DigitSpace, EAcute, TenBytes}

AsciiPayloads == {p \in OctetPayloads : \A i \in 1..Len(p) : p[i] # "e'"}

DelimitedMessages == {Hello, PriM, Twelve, ThreeAbcDef}

\* The UTF-8 encoding of text.
RECURSIVE Utf8(_)
Utf8(text) ==
    IF text = <<>> THEN <<>>
    ELSE (IF Head(text) = "e'" THEN <<"C3", "A9">> ELSE <<Head(text)>>)
         \o Utf8(Tail(text))

DigitChar(d) == CHOOSE c \in Digits : DigitVal(c) = d

\* The decimal numeral of n >= 0.
RECURSIVE ToDecimal(_)
ToDecimal(n) ==
    IF n < 10 THEN <<DigitChar(n)>>
    ELSE ToDecimal(n \div 10) \o <<DigitChar(n % 10)>>

\* One framed message: RFC 6587 octet counting ("<length in bytes> <bytes>"),
\* or the message followed by LF, CR LF or NUL, or the message with nothing
\* after it (the peer closes the connection instead).
Frame(framing, msg) ==
    CASE framing = "octet" -> ToDecimal(Len(Utf8(msg))) \o <<" ">> \o Utf8(msg)
      [] framing = "lf"    -> Utf8(msg) \o <<"\n">>
      [] framing = "crlf"  -> Utf8(msg) \o <<"\r", "\n">>
      [] framing = "nul"   -> Utf8(msg) \o <<"NUL">>
      [] framing = "bare"  -> Utf8(msg)

RECURSIVE Stream(_, _)
Stream(framing, msgs) ==
    IF msgs = <<>> THEN <<>>
    ELSE Frame(framing, Head(msgs)) \o Stream(framing, Tail(msgs))

\* What one peer may send: a framing and the messages framed with it.
Sends ==
    {[framing |-> "octet", msgs |-> m] : m \in FramesOf(OctetPayloads)}
    \union {[framing |-> f, msgs |-> m] :
               f \in {"lf", "crlf", "nul"}, m \in FramesOf(DelimitedMessages)}

\* The strings processMessage was called with for socket, in call order.
EmittedOf(socket) ==
    LET mine == SelectSeq(emitted, LAMBDA e : e.socket = socket)
    IN  [i \in 1..Len(mine) |-> mine[i].msg]

IsPrefix(a, b) == Len(a) <= Len(b) /\ a = SubSeq(b, 1, Len(a))

----------------------------------------------------------------------------
(* The states in which a component has not been used.                      *)

IngestIdle ==
    /\ connections = {} /\ messageBuffers = <<>> /\ logs = <<>>
    /\ wire = <<>> /\ sent = <<>> /\ emitted = <<>> /\ dropped = <<>>
    /\ closed = {}
    /\ listening = FALSE /\ dbClosed = FALSE /\ delivered = <<>>

ParseIdle == parseIn = <<>> /\ parseOut = <<>>

ThresholdIdle ==
    /\ thrIn = <<>> /\ thrOut = <<>>

QueryIdle == qryIn = <<>> /\ qryOut = <<>>

WebhookIdle == hookIn = <<>> /\ hookOut = <<>>

ServiceIdle ==
    /\ dbPath = <<>> /\ files = <<>> /\ svcEvent = "idle" /\ svcOut = <<>>

----------------------------------------------------------------------------
(* ConfigManager                                                           *)

\* window.match(/^(\d+)([mhd])$/) and the conversion to milliseconds:
\* <<ms>>, or <<>> when parseTimeWindow throws.
parseTimeWindow(window) ==
    LET nd    == LeadingRun(window, Digits)
        value == DigitsValue(SubSeq(window, 1, nd))
        unit  == CharAt(window, nd + 1)
    IN  IF nd >= 1 /\ Len(window) = nd + 1 /\ unit \in {"m", "h", "d"}
        THEN CASE unit = "m" -> <<value * 60 * 1000>>
               [] unit = "h" -> <<value * 60 * 60 * 1000>>
               [] unit = "d" -> <<value * 24 * 60 * 60 * 1000>>
        ELSE <<>>

\* A checkThreshold whose "gte" is strict.
checkThresholdGteAsGt(value, threshold, operator) ==
    CASE operator = "gt"  -> value > threshold
      [] operator = "gte" -> value > threshold
      [] operator = "lt"  -> value < threshold
      [] operator = "lte" -> value <= threshold
      [] operator = "eq"  -> value = threshold
      [] OTHER            -> FALSE

checkThreshold(value, threshold, operator) ==
    CASE operator = "gt"  -> value > threshold
      [] operator = "gte" -> value >= threshold
      [] operator = "lt"  -> value < threshold
      [] operator = "lte" -> value <= threshold
      [] operator = "eq"  -> value = threshold
      [] OTHER            -> FALSE

\* A getAlertRules without its filter.
getAlertRulesUnfiltered == [i \in 1..Len(config.alerts) |-> i]

\* getAlertRules(): the enabled rules, in configured order (as indices into
\* config.alerts).
getAlertRules ==
    LET RECURSIVE From(_)
        From(i) == IF i > Len(config.alerts) THEN <<>>
                   ELSE (IF config.alerts[i].enabled THEN <<i>> ELSE <<>>)
                        \o From(i + 1)
    IN  From(1)

----------------------------------------------------------------------------
(* LogDatabase.runAlertQuery                                               *)

MaxCount == 2

\* What the COUNT(*) statement does: it fails, or it returns a count.
QueryOutcomes ==
    {[ok |-> FALSE, count |-> 0]} \union {[ok |-> TRUE, count |-> n] : n \in 0..MaxCount}

\* A runAlertQuery whose catch block reports matching logs.
runAlertQueryFailureCounts(outcome) ==
    IF outcome.ok THEN outcome.count ELSE MaxCount

\* runAlertQuery: the count, 0 when the statement throws.
runAlertQuery(outcome) == IF outcome.ok THEN outcome.count ELSE 0

\* The text of a statement is a sequence of tokens: "(", ")", "AND", "OR"
\* and the comparisons "timestamp >= $startTime", "timestamp <= $endTime",
\* "severity <= 2" and "1 = 1".
Comparisons ==
    {"timestamp >= $startTime", "timestamp <= $endTime", "severity <= 2",
     "1 = 1"}

\* The value of a comparison for one row, with the statement's parameters.
Compare(token, row, startTime, endTime) ==
    CASE token = "timestamp >= $startTime" -> row.timestamp >= startTime
      [] token = "timestamp <= $endTime"   -> row.timestamp <= endTime
      [] token = "severity <= 2"           -> row.severity <= 2
      [] token = "1 = 1"                   -> TRUE

SyntaxError == [ok |-> FALSE, val |-> FALSE, rest |-> <<>>]

\* The WHERE expression as SQLite reads it: AND binds tighter than OR, and a
\* parenthesis groups. Each operator reads one expression off the front of
\* the tokens and gives its value for the row and the tokens that are left.
RECURSIVE OrExpr(_, _, _, _)
RECURSIVE AndExpr(_, _, _, _)
RECURSIVE Operand(_, _, _, _)

Operand(tokens, row, startTime, endTime) ==
    IF tokens = <<>> THEN SyntaxError
    ELSE IF Head(tokens) = "("
    THEN LET e == OrExpr(Tail(tokens), row, startTime, endTime)
         IN  IF e.ok /\ e.rest # <<>> /\ Head(e.rest) = ")"
             THEN [e EXCEPT !.rest = Tail(e.rest)]
             ELSE SyntaxError
    ELSE IF Head(tokens) \in Comparisons
    THEN [ok |-> TRUE, val |-> Compare(Head(tokens), row, startTime, endTime),
          rest |-> Tail(tokens)]
    ELSE SyntaxError

AndExpr(tokens, row, startTime, endTime) ==
    LET a == Operand(tokens, row, startTime, endTime)
    IN  IF a.ok /\ a.rest # <<>> /\ Head(a.rest) = "AND"
        THEN LET b == AndExpr(Tail(a.rest), row, startTime, endTime)
             IN  IF b.ok THEN [b EXCEPT !.val = a.val /\ b.val] ELSE SyntaxError
        ELSE a

OrExpr(tokens, row, startTime, endTime) ==
    LET a == AndExpr(tokens, row, startTime, endTime)
    IN  IF a.ok /\ a.rest # <<>> /\ Head(a.rest) = "OR"
        THEN LET b == OrExpr(Tail(a.rest), row, startTime, endTime)
             IN  IF b.ok THEN [b EXCEPT !.val = a.val \/ b.val] ELSE SyntaxError
        ELSE a

\* fullQuery: the WHERE expression of the statement, the predicate put
\* between the parentheses of the template as it is.
fullQuery(predicate) ==
    <<"timestamp >= $startTime", "AND", "timestamp <= $endTime", "AND", "(">>
        \o predicate \o <<")">>

\* this.db.prepare(fullQuery): the statement compiles when the text is one
\* whole expression.
Prepares(predicate) ==
    LET e == OrExpr(fullQuery(predicate), [timestamp |-> 0, severity |-> 0], 0, 0)
    IN  e.ok /\ e.rest = <<>>

\* The rows of the table the statement counts.
CountedRows(table, predicate, startTime, endTime) ==
    {row \in table : OrExpr(fullQuery(predicate), row, startTime, endTime).val}

\* stmt.get(...): the statement fails to compile, or it returns the count.
StmtGet(table, predicate, startTime, endTime) ==
    IF Prepares(predicate)
    THEN [ok |-> TRUE,
          count |-> Cardinality(CountedRows(table, predicate, startTime, endTime))]
    ELSE [ok |-> FALSE, count |-> 0]

----------------------------------------------------------------------------
(* AlertEngine                                                             *)

\* The clock advances by ClockStepMs, at most MaxClockSteps times.
ClockStepMs == 150000

MaxClockSteps == 2

\* rule.cooldown || "5m"
CooldownOf(rule) == IF rule.cooldown = <<>> THEN <<"5", "m">> ELSE rule.cooldown

\* An isInCooldown that never adds the cooldown to the last alert time.
isInCooldownForgetsCooldown(rule) ==
    LET lastAlert == lastAlertTimes[rule.name]
    IN  IF lastAlert = <<>> THEN FALSE ELSE now < lastAlert[1]

\* An isInCooldown that still suppresses at the end of the cooldown.
isInCooldownUntilAfterEnd(rule) ==
    LET lastAlert  == lastAlertTimes[rule.name]
        cooldownMs == parseTimeWindow(CooldownOf(rule))
    IN  IF lastAlert = <<>> THEN FALSE
        ELSE now <= lastAlert[1] + cooldownMs[1]

isInCooldown(rule) ==
    LET lastAlert  == lastAlertTimes[rule.name]
        cooldownMs == parseTimeWindow(CooldownOf(rule))
    IN  IF lastAlert = <<>> THEN FALSE
        ELSE now < lastAlert[1] + cooldownMs[1]

\* A timer callback without the guard.
TickGuardMissing == TRUE

\* if (!this.isRunning) in the timer callback.
TickGuard == ~isRunning

\* A runChecks that iterates the rules last to first.
NewRunLastFirst(rules) ==
    [rules |-> [k \in 1..Len(rules) |-> rules[Len(rules) + 1 - k]], idx |-> 1,
     pc |-> "loop", count |-> 0, startTime |-> 0, endTime |-> 0,
     query |-> "none"]

\* A runChecks execution: the enabled rules it iterates, the position of
\* the loop, and, while it awaits sendAlert, the arguments of that call.
NewRun(rules) ==
    [rules |-> rules, idx |-> 1, pc |-> "loop", count |-> 0,
     startTime |-> 0, endTime |-> 0, query |-> "none"]

RemoveAt(seq, i) == SubSeq(seq, 1, i - 1) \o SubSeq(seq, i + 1, Len(seq))

\* A scheduler that makes up for a skipped tick when the batch ends.
RunsAfterRuleCatchesUp(i) ==
    IF runs[i].idx < Len(runs[i].rules)
    THEN [runs EXCEPT ![i] = [NewRun(runs[i].rules) EXCEPT !.idx = runs[i].idx + 1]]
    ELSE IF tickSkipped THEN [runs EXCEPT ![i] = NewRun(getAlertRules)]
    ELSE RemoveAt(runs, i)

\* runs after checkRule of execution i has returned or thrown: the loop
\* goes on to the next rule; after the last one the execution ends.
RunsAfterRule(i) ==
    IF runs[i].idx < Len(runs[i].rules)
    THEN [runs EXCEPT ![i] = [NewRun(runs[i].rules) EXCEPT !.idx = runs[i].idx + 1]]
    ELSE RemoveAt(runs, i)

\* A loop whose catch block leaves the batch.
RunsAfterThrowEndsBatch(i) == RemoveAt(runs, i)

\* runs after checkRule of execution i has thrown: the catch block inside the
\* loop logs the error and the loop goes on as after a return.
RunsAfterThrow(i) == RunsAfterRule(i)

\* A runChecks without its finally block.
IsRunningNeverCleared(i) == isRunning

\* isRunning after checkRule of execution i: the finally block of runChecks
\* clears it when the execution ends.
IsRunningAfterRule(i) ==
    IF runs[i].idx < Len(runs[i].rules) THEN isRunning ELSE FALSE

\* A start() without its early return.
TimerAlwaysCreated == TRUE

\* if (!config.alerting.enabled) return: setInterval is reached only when
\* alerting is enabled.
TimerCreated == config.alerting.enabled

\* AlertEngine.start()
Start ==
    /\ phase = "constructed"
    /\ phase' = "started"
    /\ checkInterval' = TimerCreated
    /\ lastEvent' = "start"
    /\ lastQuery' = <<>>
    /\ UNCHANGED <<config, isRunning, lastAlertTimes, runs, alertHistory, now,
                   lastRule, lastSuccess, evaluated, tickSkipped>>
    /\ EngineFrame

\* AlertEngine.stop()
Stop ==
    /\ phase = "started"
    /\ phase' = "stopped"
    /\ checkInterval' = FALSE
    /\ lastEvent' = "stop"
    /\ lastQuery' = <<>>
    /\ UNCHANGED <<config, isRunning, lastAlertTimes, runs, alertHistory, now,
                   lastRule, lastSuccess, evaluated, tickSkipped>>
    /\ EngineFrame

\* The timer callback, and runChecks up to its loop.
Tick ==
    /\ checkInterval
    /\ IF TickGuard
       THEN IF getAlertRules = <<>>
            THEN /\ isRunning' = FALSE
                 /\ runs' = runs
                 /\ evaluated' = <<>>
                 /\ tickSkipped' = FALSE
                 /\ lastEvent' = "emptyBatch"
            ELSE /\ isRunning' = TRUE
                 /\ runs' = Append(runs, NewRun(getAlertRules))
                 /\ evaluated' = <<>>
                 /\ tickSkipped' = FALSE
                 /\ lastEvent' = "batchStart"
       ELSE /\ UNCHANGED <<isRunning, runs, evaluated>>
            /\ tickSkipped' = TRUE
            /\ lastEvent' = "tickSkipped"
    /\ lastQuery' = <<>>
    /\ UNCHANGED <<config, phase, checkInterval, lastAlertTimes, alertHistory,
                   now, lastRule, lastSuccess>>
    /\ EngineFrame

\* A checkRule that runs its query before it looks at the cooldown.
QueryBeforeGate == <<[ok |-> TRUE, count |-> 0]>>

\* if (this.isInCooldown(rule)) return: the call ends before runAlertQuery.
QueryInCooldown == <<>>

\* What became of the query of a checkRule call: none was issued, the COUNT
\* statement answered, or it failed.
QueryStatus(query) ==
    IF query = <<>> THEN "none" ELSE IF query[1].ok THEN "answered" ELSE "failed"

\* A checkRule call that has ended: the rule, how the call ended and what
\* became of its query.
Ended(r, event, query) == [rule |-> r, event |-> event, query |-> query]

\* How checkRule ends once sendAlert has returned.
SendAlertEvent(success, historyOk) ==
    IF ~success THEN "fail" ELSE IF historyOk THEN "success" ELSE "historyError"

\* checkRule of execution i for its current rule, up to its return or to the
\* await of sendAlert.
CheckRule(i) ==
    /\ i \in 1..Len(runs)
    /\ runs[i].pc = "loop"
    /\ LET r        == runs[i].rules[runs[i].idx]
           rule     == config.alerts[r]
           windowMs == parseTimeWindow(rule.window)
       IN  /\ lastRule' = r
           /\ IF isInCooldown(rule)
              THEN /\ runs' = RunsAfterRule(i)
                   /\ isRunning' = IsRunningAfterRule(i)
                   /\ lastQuery' = QueryInCooldown
                   /\ evaluated' = Append(evaluated,
                          Ended(r, "cooldown", QueryStatus(QueryInCooldown)))
                   /\ lastEvent' = "cooldown"
              ELSE IF windowMs = <<>>
              THEN /\ runs' = RunsAfterThrow(i)
                   /\ isRunning' = IsRunningAfterRule(i)
                   /\ lastQuery' = <<>>
                   /\ evaluated' = Append(evaluated, Ended(r, "error", "none"))
                   /\ lastEvent' = "error"
              ELSE \E outcome \in QueryOutcomes :
                     LET count == runAlertQuery(outcome)
                     IN  IF checkThreshold(count, rule.threshold, rule.operator)
                         THEN /\ runs' = [runs EXCEPT ![i] =
                                            [@ EXCEPT !.pc = "fetch",
                                                      !.count = count,
                                                      !.startTime = now - windowMs[1],
                                                      !.endTime = now,
                                                      !.query =
                                                          QueryStatus(<<outcome>>)]]
                              /\ isRunning' = isRunning
                              /\ lastQuery' = <<outcome>>
                              /\ evaluated' = evaluated
                              /\ lastEvent' = "dispatch"
                         ELSE /\ runs' = RunsAfterRule(i)
                              /\ isRunning' = IsRunningAfterRule(i)
                              /\ lastQuery' = <<outcome>>
                              /\ evaluated' = Append(evaluated,
                                     Ended(r, "noAlert",
                                           QueryStatus(<<outcome>>)))
                              /\ lastEvent' = "noAlert"
    /\ UNCHANGED <<config, phase, checkInterval, lastAlertTimes, alertHistory,
                   now, lastSuccess, tickSkipped>>
    /\ EngineFrame

\* A tracker that is set whatever sendAlert returned.
CooldownAfterIgnoresResult(r, success) ==
    [lastAlertTimes EXCEPT ![config.alerts[r].name] = <<now>>]

\* The cooldown tracker after sendAlert returned for rule r: set only
\* if (success).
CooldownAfter(r, success) ==
    IF success THEN [lastAlertTimes EXCEPT ![config.alerts[r].name] = <<now>>]
    ELSE lastAlertTimes

\* sendAlert of execution i returns (success: a 2xx response; failure: any
\* other status, a network error or the 30 s timeout), and checkRule runs to
\* its end; historyOk: insertAlertHistory does not throw.
SendAlertReturns(i, success, historyOk) ==
    /\ i \in 1..Len(runs)
    /\ runs[i].pc = "fetch"
    /\ LET r    == runs[i].rules[runs[i].idx]
           rule == config.alerts[r]
       IN  /\ lastRule' = r
           /\ lastAlertTimes' = CooldownAfter(r, success)
           /\ lastSuccess' = IF success THEN [lastSuccess EXCEPT ![r] = <<now>>]
                             ELSE lastSuccess
           /\ alertHistory' =
                  IF success /\ historyOk
                  THEN Append(alertHistory,
                              [alertName |-> rule.name, count |-> runs[i].count,
                               windowStart |-> runs[i].startTime,
                               windowEnd |-> runs[i].endTime])
                  ELSE alertHistory
           /\ lastEvent' = SendAlertEvent(success, historyOk)
           /\ evaluated' = Append(evaluated,
                  Ended(r, SendAlertEvent(success, historyOk), runs[i].query))
    /\ runs' = IF success /\ ~historyOk THEN RunsAfterThrow(i)
                ELSE RunsAfterRule(i)
    /\ isRunning' = IsRunningAfterRule(i)
    /\ lastQuery' = <<>>
    /\ UNCHANGED <<config, phase, checkInterval, now, tickSkipped>>
    /\ EngineFrame

\* Time passes.
ClockAdvance ==
    /\ now < MaxClockSteps * ClockStepMs
    /\ now' = now + ClockStepMs
    /\ lastEvent' = "clock"
    /\ lastQuery' = <<>>
    /\ UNCHANGED <<config, phase, checkInterval, isRunning, lastAlertTimes,
                   runs, alertHistory, lastRule, lastSuccess, evaluated,
                   tickSkipped>>
    /\ EngineFrame

----------------------------------------------------------------------------
(* Configurations                                                          *)

ErrorsRule ==
    [name |-> "errors", enabled |-> TRUE, window |-> <<"1", "5", "m">>,
     query |-> "LOWER(message) LIKE '%error%'", threshold |-> 1,
     operator |-> "gt", cooldown |-> <<"2", "m">>]

\* No cooldown given: the default applies.
AuthRule ==
    [name |-> "auth", enabled |-> TRUE, window |-> <<"1", "h">>,
     query |-> "severity <= 2", threshold |-> 2,
     operator |-> "gte", cooldown |-> <<>>]

DisabledRule ==
    [name |-> "disabled", enabled |-> FALSE, window |-> <<"1", "5", "m">>,
     query |-> "severity <= 2", threshold |-> 1,
     operator |-> "gte", cooldown |-> <<"1", "m">>]

\* A second rule that carries the name of ErrorsRule.
ErrorsTwin ==
    [name |-> "errors", enabled |-> TRUE, window |-> <<"1", "d">>,
     query |-> "hostname = 'db'", threshold |-> 2,
     operator |-> "eq", cooldown |-> <<"1", "m">>]

\* A rule that fires while fewer than one matching log exists.
QuietRule ==
    [name |-> "quiet", enabled |-> TRUE, window |-> <<"1", "h">>,
     query |-> "app_name = 'heartbeat'", threshold |-> 1,
     operator |-> "lt", cooldown |-> <<"1", "h">>]

Configs ==
    {[alerting |-> [enabled |-> TRUE], alerts |-> <<ErrorsRule, AuthRule>>],
     [alerting |-> [enabled |-> TRUE], alerts |-> <<QuietRule, ErrorsRule>>],
     [alerting |-> [enabled |-> TRUE], alerts |-> <<DisabledRule, ErrorsRule>>],
     [alerting |-> [enabled |-> TRUE], alerts |-> <<ErrorsRule, ErrorsTwin>>],
     [alerting |-> [enabled |-> TRUE], alerts |-> <<>>],
     [alerting |-> [enabled |-> FALSE], alerts |-> <<ErrorsRule>>]}

\* getDefaultConfig()
DefaultConfig == [alerting |-> [enabled |-> TRUE], alerts |-> <<>>]

RuleNames(cfg) == {cfg.alerts[i].name : i \in 1..Len(cfg.alerts)}

\* The alert engine as constructed for the configuration cfg.
EngineConstructed(cfg) ==
    /\ config = cfg
    /\ phase = "constructed"
    /\ checkInterval = FALSE
    /\ isRunning = FALSE
    /\ lastAlertTimes = [n \in RuleNames(cfg) |-> <<>>]
    /\ runs = <<>>
    /\ alertHistory = <<>>
    /\ now = 0
    /\ lastEvent = "init"
    /\ lastRule = 0
    /\ lastSuccess = [r \in 1..Len(cfg.alerts) |-> <<>>]
    /\ evaluated = <<>>
    /\ lastQuery = <<>>
    /\ tickSkipped = FALSE

\* .regex(/^\d+[mhd]$/) of the schema, for window and cooldown.
TimeFormat(s) ==
    LET nd == LeadingRun(s, Digits)
    IN  nd >= 1 /\ Len(s) = nd + 1 /\ CharAt(s, nd + 1) \in {"m", "h", "d"}

\* ConfigSchema.parse(rawConfig) does not throw: every rule has a window in
\* the format, and a cooldown in the format or none.
SchemaAccepts(raw) ==
    \A i \in 1..Len(raw.alerts) :
        /\ TimeFormat(raw.alerts[i].window)
        /\ raw.alerts[i].cooldown = <<>> \/ TimeFormat(raw.alerts[i].cooldown)

\* The constructor of ConfigManager: the parsed configuration, and the
\* default configuration when there is none or when parsing it threw.
LoadConfig(raw) ==
    IF raw = <<>> THEN DefaultConfig
    ELSE IF SchemaAccepts(raw[1]) THEN raw[1]
    ELSE DefaultConfig

\* The service as constructed when the configuration source holds raw.
Loaded(raw) ==
    /\ rawConfig = raw
    /\ EngineConstructed(LoadConfig(raw))

----------------------------------------------------------------------------
(* Spec: the alert engine                                                  *)

Init ==
    /\ \E cfg \in Configs : ServiceIdle /\ Loaded(<<cfg>>)
    /\ IngestIdle /\ ParseIdle /\ ThresholdIdle /\ QueryIdle /\ WebhookIdle

Next ==
    \/ Start
    \/ Stop
    \/ Tick
    \/ \E i \in 1..Len(runs) : CheckRule(i)
    \/ \E i \in 1..Len(runs), success \in BOOLEAN, historyOk \in BOOLEAN :
           SendAlertReturns(i, success, historyOk)
    \/ ClockAdvance

Spec == Init /\ [][Next]_vars

\* Two rules whose cooldown outlasts the clock, and no rule at all.
SlowRules ==
    <<[ErrorsRule EXCEPT !.cooldown = <<"1", "h">>],
      [AuthRule EXCEPT !.cooldown = <<"1", "h">>]>>

LiveConfigs ==
    {[alerting |-> [enabled |-> TRUE], alerts |-> SlowRules],
     [alerting |-> [enabled |-> TRUE], alerts |-> <<>>]}

InitLive ==
    /\ \E cfg \in LiveConfigs : ServiceIdle /\ Loaded(<<cfg>>)
    /\ IngestIdle /\ ParseIdle /\ ThresholdIdle /\ QueryIdle /\ WebhookIdle

\* The event loop runs every continuation that is ready, so a runChecks
\* execution at its loop goes on; the fetch of sendAlert carries
\* AbortSignal.timeout(30000), so an awaited sendAlert returns.
SpecLive ==
    /\ InitLive /\ [][Next]_vars
    /\ WF_vars(\E i \in 1..Len(runs) : CheckRule(i))
    /\ WF_vars(\E i \in 1..Len(runs), success \in BOOLEAN, historyOk \in BOOLEAN :
                   SendAlertReturns(i, success, historyOk))

----------------------------------------------------------------------------
(* SpecShutdown: the engine of a service that receives SIGINT or SIGTERM   *)

\* The shutdown handler of OpenLogService: alertEngine.stop(), the servers
\* are stopped (none of their stop() methods waits for anything), and
\* process.exit(0) ends the process with the runChecks executions that are
\* in progress.
Shutdown ==
    /\ phase = "started"
    /\ phase' = "exited"
    /\ checkInterval' = FALSE
    /\ runs' = <<>>
    /\ lastEvent' = "exit"
    /\ lastQuery' = <<>>
    /\ UNCHANGED <<config, isRunning, lastAlertTimes, alertHistory, now,
                   lastRule, lastSuccess, evaluated, tickSkipped>>
    /\ EngineFrame

NextShutdown ==
    \/ Start
    \/ Stop
    \/ Tick
    \/ \E i \in 1..Len(runs) : CheckRule(i)
    \/ \E i \in 1..Len(runs), success \in BOOLEAN, historyOk \in BOOLEAN :
           SendAlertReturns(i, success, historyOk)
    \/ ClockAdvance
    \/ Shutdown

SpecShutdown == InitLive /\ [][NextShutdown]_vars

----------------------------------------------------------------------------
(* SpecConfig: the engine of a service constructed from a configuration    *)
(* source that may hold values outside the schema                          *)

\* A window without a unit, and a cooldown with a unit that is none.
BadWindowRule == [ErrorsRule EXCEPT !.window = <<"1", "5">>]

BadCooldownRule == [ErrorsRule EXCEPT !.cooldown = <<"9", "0", "s">>]

RawConfigs ==
    {<<>>,
     <<[alerting |-> [enabled |-> TRUE], alerts |-> <<ErrorsRule>>]>>,
     <<[alerting |-> [enabled |-> TRUE], alerts |-> <<BadWindowRule>>]>>,
     <<[alerting |-> [enabled |-> TRUE], alerts |-> <<AuthRule, BadCooldownRule>>]>>,
     <<[alerting |-> [enabled |-> FALSE], alerts |-> <<BadWindowRule>>]>>}

InitConfig ==
    /\ \E raw \in RawConfigs : ServiceIdle /\ Loaded(raw)
    /\ IngestIdle /\ ParseIdle /\ ThresholdIdle /\ QueryIdle /\ WebhookIdle

SpecConfig == InitConfig /\ [][Next]_vars

----------------------------------------------------------------------------
(* SpecDecoder: one connection, its peer's stream cut into chunks          *)

InitDecoder ==
    /\ connections = {} /\ messageBuffers = <<>> /\ logs = <<>>
    /\ emitted = <<>> /\ dropped = <<>> /\ closed = {}
    /\ listening = TRUE /\ dbClosed = FALSE /\ delivered = <<>>
    /\ sent \in [{"s1"} -> Sends]
    /\ wire = [s \in {"s1"} |-> Stream(sent[s].framing, sent[s].msgs)]
    /\ ServiceIdle /\ Loaded(<<>>) /\ ParseIdle /\ ThresholdIdle
    /\ QueryIdle /\ WebhookIdle

NextDecoder ==
    \/ \E socket \in Sockets : Open(socket)
    \/ \E socket \in Sockets : \E n \in 1..Len(wire[socket]) : Data(socket, n)
    \/ \E socket \in Sockets : Close(socket)
    \/ \E socket \in Sockets : Error(socket)

SpecDecoder == InitDecoder /\ [][NextDecoder]_vars

----------------------------------------------------------------------------
(* SpecBuffer: one connection whose peer sends any bytes, cut into chunks  *)

MaxBytes == 4

\* The bytes a peer may send: digits, a space, the delimiters and a letter.
PeerBytes == {"0", "1", " ", "\n", "\r", "NUL", "a"}

\* The streams of at most MaxBytes bytes.
PeerStreams == UNION {[1..n -> PeerBytes] : n \in 0..MaxBytes}

InitBuffer ==
    /\ connections = {} /\ messageBuffers = <<>> /\ logs = <<>>
    /\ emitted = <<>> /\ dropped = <<>> /\ closed = {}
    /\ listening = TRUE /\ dbClosed = FALSE /\ delivered = <<>>
    /\ sent = [s \in {"s1"} |-> [framing |-> "bytes", msgs |-> <<>>]]
    /\ wire \in [{"s1"} -> PeerStreams]
    /\ ServiceIdle /\ Loaded(<<>>) /\ ParseIdle /\ ThresholdIdle
    /\ QueryIdle /\ WebhookIdle

SpecBuffer == InitBuffer /\ [][NextDecoder]_vars

----------------------------------------------------------------------------
(* SpecServer: two connections, their handler calls observed, and stop()   *)

\* a
MsgA ==
    <<"a">>

\* b
MsgB ==
    <<"b">>

\* What a peer of SpecServer may send: a LF b and nothing after it, b
\* octet-counted, the two messages a and b each followed by LF.
ServerSends ==
    {[framing |-> "bare", msgs |-> <<WithLF>>],
     [framing |-> "octet", msgs |-> <<MsgB>>],
     [framing |-> "lf", msgs |-> <<MsgA, MsgB>>]}

InitServer ==
    /\ connections = {} /\ messageBuffers = <<>> /\ logs = <<>>
    /\ emitted = <<>> /\ dropped = <<>> /\ closed = {}
    /\ listening = TRUE /\ dbClosed = FALSE
    /\ sent \in [{"s1", "s2"} -> ServerSends]
    /\ wire = [s \in {"s1", "s2"} |-> Stream(sent[s].framing, sent[s].msgs)]
    /\ delivered = [s \in {"s1", "s2"} |-> <<>>]
    /\ ServiceIdle /\ Loaded(<<>>) /\ ParseIdle /\ ThresholdIdle
    /\ QueryIdle /\ WebhookIdle

NextServer ==
    \/ \E socket \in Sockets : Open(socket)
    \/ \E socket \in Sockets : \E n \in 1..Len(wire[socket]) : Data(socket, n)
    \/ \E socket \in Sockets : Close(socket)
    \/ \E socket \in Sockets : Error(socket)
    \/ \E closeInEnd \in BOOLEAN : SyslogServerStop(closeInEnd)

SpecServer == InitServer /\ [][NextServer]_vars

----------------------------------------------------------------------------
(* SpecParser: processMessage called with one string                       *)

MaxPri == 191

MaxNegPri == 9

\* The numeral of an integer, with its sign.
ToSigned(n) == IF n < 0 THEN <<"-">> \o ToDecimal(0 - n) ELSE ToDecimal(n)

PriBodies == {BodyX, Body5424, Body3164}

ParseInputs ==
    {<<"<">> \o ToSigned(p) \o <<">">> \o body :
        p \in (0 - MaxNegPri)..MaxPri, body \in PriBodies}
    \union {BadDate3164, NoPri, NoClose, PriAbc, PriEmpty, PriDigitsThenText,
            LeadingBlank, LaterPri}

InitParser ==
    /\ parseIn \in ParseInputs
    /\ parseOut = <<>>
    /\ IngestIdle /\ ServiceIdle /\ Loaded(<<>>) /\ ThresholdIdle
    /\ QueryIdle /\ WebhookIdle

\* processMessage(parseIn)
ProcessMessageCall ==
    /\ parseOut = <<>>
    /\ parseOut' = <<parse(parseIn)>>
    /\ emitted' = Append(emitted, [socket |-> "none", msg |-> parseIn])
    /\ logs' = processMessage(logs, parseIn)
    /\ dropped' = dropped \o Thrown(<<parseIn>>)
    /\ UNCHANGED <<parseIn, connections, messageBuffers, wire, sent, closed,
                   listening, dbClosed, delivered>>
    /\ UNCHANGED <<rawConfig, svcVars, engineVars, thrVars, qryVars, hookVars>>

NextParser == ProcessMessageCall

SpecParser == InitParser /\ [][NextParser]_vars

----------------------------------------------------------------------------
(* SpecRfc5424: processMessage called with one RFC 5424 message            *)

MaxFields == 3

\* What a field after the msg-id may be: the nil value, a bracket group, the
\* start and the end of a group that holds a space, a word, and the empty
\* field two spaces in a row make.
TailFields == {<<"-">>, <<"[", "x", "]">>, <<"[", "x">>, <<"y", "]">>,
               <<"m">>, <<>>}

\* The fields of a sequence, each after one space.
RECURSIVE Spaced(_)
Spaced(fields) ==
    IF fields = <<>> THEN <<>>
    ELSE <<" ">> \o Head(fields) \o Spaced(Tail(fields))

Rfc5424Inputs ==
    {<<"<", "1", "3", ">", "1", " ", "-">>
        \o Spaced(<<host, <<"a">>, pid, mid>>) \o Spaced(tail) :
        host \in {<<"h">>, <<>>}, pid \in {<<"-">>, <<"7">>},
        mid \in {<<"-">>, <<"i">>},
        tail \in UNION {[1..n -> TailFields] : n \in 0..MaxFields}}

InitRfc5424 ==
    /\ parseIn \in Rfc5424Inputs
    /\ parseOut = <<>>
    /\ IngestIdle /\ ServiceIdle /\ Loaded(<<>>) /\ ThresholdIdle
    /\ QueryIdle /\ WebhookIdle

SpecRfc5424 == InitRfc5424 /\ [][NextParser]_vars

----------------------------------------------------------------------------
(* SpecThreshold: checkThreshold called once                               *)

MaxValue == 11

Operators == {"gt", "gte", "lt", "lte", "eq"}

\* Strings that are no operator of the schema.
OtherOperators == {"ne", "GT", ""}

InitThreshold ==
    /\ thrIn \in [value : 0..MaxValue, threshold : 1..MaxValue,
                  operator : Operators \union OtherOperators]
    /\ thrOut = <<>>
    /\ IngestIdle /\ ParseIdle /\ ServiceIdle /\ Loaded(<<>>)
    /\ QueryIdle /\ WebhookIdle

CheckThresholdCall ==
    /\ thrOut = <<>>
    /\ thrOut' = <<checkThreshold(thrIn.value, thrIn.threshold, thrIn.operator)>>
    /\ UNCHANGED thrIn
    /\ UNCHANGED <<ingestVars, parseVars, rawConfig, svcVars, engineVars, qryVars,
                   hookVars>>

NextThreshold == CheckThresholdCall

SpecThreshold == InitThreshold /\ [][NextThreshold]_vars

----------------------------------------------------------------------------
(* SpecQuery: runAlertQuery called once on a logs table                    *)

MaxTime == 3

\* The rows a logs table may hold (one per timestamp and severity).
Rows == [timestamp : 0..MaxTime, severity : {2, 5}]

\* Predicates a rule may carry: the examples of the documentation, a
\* predicate that is no expression, and predicates whose parentheses close
\* the one the template opened.
Predicates ==
    {<<"severity <= 2">>,
     <<"1 = 1">>,
     <<"severity <= 2", "OR", "1 = 1">>,
     <<"(", "severity <= 2", ")", "AND", "1 = 1">>,
     <<"severity <= 2", "AND">>,
     <<"severity <= 2", ")", "OR", "(", "1 = 1">>,
     <<"1 = 1", ")", "OR", "(", "severity <= 2">>}

InitQuery ==
    /\ qryIn \in {q \in [table : SUBSET Rows, predicate : Predicates,
                          startTime : 0..MaxTime, endTime : 0..MaxTime] :
                     q.startTime <= q.endTime}
    /\ qryOut = <<>>
    /\ IngestIdle /\ ParseIdle /\ ThresholdIdle /\ WebhookIdle
    /\ ServiceIdle /\ Loaded(<<>>)

\* runAlertQuery(predicate, startTime, endTime)
RunAlertQueryCall ==
    /\ qryOut = <<>>
    /\ LET stmt == StmtGet(qryIn.table, qryIn.predicate, qryIn.startTime,
                           qryIn.endTime)
       IN  qryOut' =
               <<[count |-> runAlertQuery(stmt),
                  counted |-> IF stmt.ok
                              THEN CountedRows(qryIn.table, qryIn.predicate,
                                               qryIn.startTime, qryIn.endTime)
                              ELSE {}]>>
    /\ UNCHANGED qryIn
    /\ UNCHANGED <<ingestVars, parseVars, rawConfig, svcVars, engineVars, thrVars,
                   hookVars>>

NextQuery == RunAlertQueryCall

SpecQuery == InitQuery /\ [][NextQuery]_vars

----------------------------------------------------------------------------
(* WebhookNotifier, and SpecWebhook: sendAlert called once                 *)

\* A getSeverity whose comparisons are strict.
getSeverityStrict(actualValue, threshold) ==
    IF actualValue > 2 * threshold THEN "critical"
    ELSE IF 2 * actualValue > 3 * threshold THEN "warning"
    ELSE "info"

\* getSeverity: ratio = actualValue / threshold, compared with 2 and with
\* 1.5. The threshold is positive, and for integers of this size the
\* quotient of two doubles is on the same side of 2 and of 1.5 as the exact
\* quotient, so the comparisons are made here without the division.
getSeverity(actualValue, threshold) ==
    IF actualValue >= 2 * threshold THEN "critical"
    ELSE IF 2 * actualValue >= 3 * threshold THEN "warning"
    ELSE "info"

\* The payload of sendAlert (its timestamps and its message left out).
Payload(rule, actualValue) ==
    [alertName |-> rule.name,
     severity  |-> getSeverity(actualValue, rule.threshold),
     duration  |-> rule.window,
     trigger   |-> [query |-> rule.query, threshold |-> rule.threshold,
                    operator |-> rule.operator, actualValue |-> actualValue]]

\* What the fetch of sendAlert does: the endpoint answers with a status, the
\* connection fails, or AbortSignal.timeout(30000) aborts the request.
Statuses == {200, 201, 204, 299, 300, 400, 404, 500, 503}

FetchOutcomes ==
    {[kind |-> "response", status |-> st] : st \in Statuses}
        \union {[kind |-> "networkError", status |-> 0],
                [kind |-> "timeout", status |-> 0]}

\* response.ok
ResponseOk(status) == status >= 200 /\ status <= 299

\* A dispatcher that posts once more after a failure.
RequestsWithRetry(rule, payload, outcome) ==
    IF outcome.kind = "response" /\ ResponseOk(outcome.status)
    THEN <<[method |-> "POST", url |-> rule.name, body |-> payload]>>
    ELSE <<[method |-> "POST", url |-> rule.name, body |-> payload],
           [method |-> "POST", url |-> rule.name, body |-> payload]>>

\* The requests one call of sendAlert makes: the one fetch of its try block,
\* whatever becomes of it (the webhook URL of a rule stands for its name).
Requests(rule, payload, outcome) ==
    <<[method |-> "POST", url |-> rule.name, body |-> payload]>>

\* sendAlert: the payload, the requests made, and how the call ends: it
\* returns response.ok, and false from the catch block when fetch throws.
sendAlert(rule, actualValue, outcome) ==
    LET payload == Payload(rule, actualValue)
    IN  [payload  |-> payload,
         requests |-> Requests(rule, payload, outcome),
         raised   |-> FALSE,
         result   |-> IF outcome.kind = "response"
                      THEN ResponseOk(outcome.status)
                      ELSE FALSE]

InitWebhook ==
    /\ hookIn \in [threshold : 1..MaxValue, actualValue : 0..MaxValue,
                    fetch : FetchOutcomes]
    /\ hookOut = <<>>
    /\ IngestIdle /\ ParseIdle /\ ThresholdIdle /\ QueryIdle
    /\ ServiceIdle /\ Loaded(<<>>)

\* sendAlert(rule, actualValue, windowStart, windowEnd, {})
SendAlertCall ==
    /\ hookOut = <<>>
    /\ hookOut' = <<sendAlert([ErrorsRule EXCEPT !.threshold = hookIn.threshold],
                              hookIn.actualValue, hookIn.fetch)>>
    /\ UNCHANGED hookIn
    /\ UNCHANGED <<ingestVars, parseVars, rawConfig, svcVars, engineVars, thrVars,
                   qryVars>>

NextWebhook == SendAlertCall

SpecWebhook == InitWebhook /\ [][NextWebhook]_vars

----------------------------------------------------------------------------
(* SpecService: the stores the parts of the service are constructed with   *)

MaxRows == 3

\* const defaultPath = join(process.cwd(), "data", "logs.db")
DefaultPath == "data/logs.db"

\* A path DB_PATH may name.
OtherPath == "/var/lib/openlog/logs.db"

Paths == {DefaultPath, OtherPath}

\* new LogDatabase(dbPath): the file it opens, dbPath || defaultPath.
LogDatabase(path) == IF path = <<>> THEN DefaultPath ELSE path[1]

\* configManager.getDbPath(): the configured path, the default path when
\* none is configured.
getDbPath == IF dbPath = <<>> THEN DefaultPath ELSE dbPath[1]

\* this.db = new LogDatabase(this.configManager.getDbPath())
ServiceDb == LogDatabase(<<getDbPath>>)

\* SyslogServer.constructor: this.db = new LogDatabase()
SyslogServerDb == LogDatabase(<<>>)

\* new AlertEngine(this.configManager, this.syslogServer.getDatabase())
AlertEngineDb == SyslogServerDb

\* new HttpServer(config.http.port, config.http.host, this.db, ...)
HttpServerDb == ServiceDb

\* A message with the time stamp 2024-01-01T12:00:00Z, older than the
\* retention period, and one without a time stamp, stored with the time of
\* its arrival.
OldMessage == <<"<", "1", "3", ">">> \o Body5424

ServiceMessages == {OldMessage, Hello}

\* DELETE FROM logs WHERE timestamp < $cutoffDate deletes the row.
BeforeCutoff(row) == row.timestamp = "parsed"

\* The rows the COUNT of runAlertQuery("1 = 1", now - window, now) counts.
InAlertWindow(row) == row.timestamp = "now"

InitService ==
    /\ dbPath \in {<<>>, <<DefaultPath>>, <<OtherPath>>}
    /\ files = [p \in Paths |-> <<>>]
    /\ svcEvent = "constructed"
    /\ svcOut = <<>>
    /\ IngestIdle /\ ParseIdle /\ ThresholdIdle /\ QueryIdle /\ WebhookIdle
    /\ Loaded(<<>>)

ServiceFrame ==
    UNCHANGED <<ingestVars, parseVars, rawConfig, engineVars, thrVars, qryVars,
                hookVars, dbPath>>

\* The syslog server hands rawMessage to processMessage.
ServiceIngest(rawMessage) ==
    /\ Len(files[SyslogServerDb]) < MaxRows
    /\ files' = [files EXCEPT
                    ![SyslogServerDb] = processMessage(@, rawMessage)]
    /\ svcEvent' = "ingest"
    /\ svcOut' = <<>>
    /\ ServiceFrame

\* checkRule: this.db.runAlertQuery(rule.query, startTime, endTime)
ServiceAlertQuery ==
    /\ svcEvent' = "count"
    /\ svcOut' = <<Len(SelectSeq(files[AlertEngineDb], InAlertWindow))>>
    /\ UNCHANGED files
    /\ ServiceFrame

\* runCleanup: this.db.cleanOldLogs(retentionDays)
RunCleanup ==
    /\ files' = [files EXCEPT
                    ![ServiceDb] = SelectSeq(@, LAMBDA row : ~BeforeCutoff(row))]
    /\ svcEvent' = "cleanup"
    /\ svcOut' = <<Len(SelectSeq(files[ServiceDb], BeforeCutoff))>>
    /\ ServiceFrame

\* handleLogs: this.db.getRecentLogs(limit), limit at least MaxRows.
HandleLogs ==
    /\ svcEvent' = "logs"
    /\ svcOut' = <<[count |-> Len(files[HttpServerDb]),
                    logs |-> Range(files[HttpServerDb])]>>
    /\ UNCHANGED files
    /\ ServiceFrame

NextService ==
    \/ \E rawMessage \in ServiceMessages : ServiceIngest(rawMessage)
    \/ ServiceAlertQuery
    \/ RunCleanup
    \/ HandleLogs

SpecService == InitService /\ [][NextService]_vars

----------------------------------------------------------------------------
(* Properties                                                              *)

\* The rule (index into config.alerts) execution i is evaluating.
RuleOf(i) == runs[i].rules[runs[i].idx]

\* C1: at most one runChecks execution is in progress at any time, and while
\* one is in progress isRunning is set, so that a timer tick arriving then
\* starts no second one.
C1_SingleFlight == Len(runs) <= 1 /\ (Len(runs) = 1 => isRunning)

\* A tick arrived, and was skipped, while a batch was awaiting a webhook.
C1_Witness ==
    lastEvent = "tickSkipped" /\ Len(runs) = 1 /\ runs[1].pc = "fetch"

\* C2: whenever a webhook dispatch of a rule is under way and the rule had a
\* successful dispatch before, this dispatch was started (endTime, the time
\* of the evaluation that led to it) no earlier than the time that earlier
\* dispatch succeeded plus the rule's cooldown (5 minutes when none is set).
C2_CooldownSeparation ==
    \A i \in 1..Len(runs) :
        (runs[i].pc = "fetch" /\ lastSuccess[RuleOf(i)] # <<>>)
        => runs[i].endTime >= lastSuccess[RuleOf(i)][1]
               + parseTimeWindow(CooldownOf(config.alerts[RuleOf(i)]))[1]

\* A rule with the default cooldown is dispatched for the second time.
C2_Witness ==
    \E i \in 1..Len(runs) :
        /\ runs[i].pc = "fetch"
        /\ lastSuccess[RuleOf(i)] # <<>>
        /\ config.alerts[RuleOf(i)].cooldown = <<>>

\* C3: a step in which sendAlert reports a failure leaves the cooldown
\* tracker and the alert history exactly as they were, and the rule is not
\* in cooldown afterwards, so that the next serviced tick evaluates it again.
C3_FailedDispatchLeavesNoTrace ==
    [][lastEvent' = "fail"
       => /\ lastAlertTimes' = lastAlertTimes
          /\ alertHistory' = alertHistory
          /\ ~(isInCooldown(config.alerts[lastRule]))']_vars

\* A dispatch failed for a rule that has a cooldown entry from an earlier fire.
C3_Witness ==
    /\ lastEvent = "fail"
    /\ lastAlertTimes[config.alerts[lastRule].name] # <<>>

\* C4: on a connection whose peer sends octet-counted frames, the strings
\* handed to processMessage are at every moment the payloads of the first
\* frames of the stream, in order, and all of them once the whole stream has
\* been delivered.
C4_OctetFramesDecodeExactly ==
    \A s \in Sockets :
        sent[s].framing = "octet"
        => /\ IsPrefix(EmittedOf(s), sent[s].msgs)
           /\ (wire[s] = <<>> /\ s \in connections) => EmittedOf(s) = sent[s].msgs

\* The same, for peers whose payloads are ASCII only (one byte per character).
OctetAsciiFramesDecodeExactly ==
    \A s \in Sockets :
        (sent[s].framing = "octet" /\ Range(sent[s].msgs) \subseteq AsciiPayloads)
        => /\ IsPrefix(EmittedOf(s), sent[s].msgs)
           /\ (wire[s] = <<>> /\ s \in connections) => EmittedOf(s) = sent[s].msgs

\* hello and world! were sent octet-counted, in more than one chunk, and both
\* were emitted.
OctetAsciiWitness ==
    \E s \in connections :
        /\ sent[s] = [framing |-> "octet", msgs |-> <<Hello, World>>]
        /\ EmittedOf(s) = <<Hello, World>>
        /\ messageBuffers[s] = <<>>

\* The number of bytes of the stream that text was decoded from.
RECURSIVE SourceBytes(_)
SourceBytes(text) ==
    IF text = <<>> THEN 0
    ELSE (IF Head(text) = "e'" THEN 2 ELSE 1) + SourceBytes(Tail(text))

\* text starts with a length prefix "N " and holds fewer than N bytes after it.
PendingFrame(text) ==
    LET nd == LeadingRun(text, Digits)
    IN  /\ nd >= 1
        /\ CharAt(text, nd + 1) = " "
        /\ SourceBytes(SubstringFrom(text, nd + 1)) < DigitsValue(SubSeq(text, 1, nd))

\* C5: a data event after which the connection's text (the retained buffer
\* plus the decoded chunk) starts with a length prefix "N " and holds fewer
\* than N bytes after it hands nothing to processMessage and retains the
\* whole text, whatever the text contains.
C5_PendingFrameEmitsNothing ==
    [][\A s \in connections :
          wire'[s] # wire[s]
          => LET data == SubSeq(wire[s], 1, Len(wire[s]) - Len(wire'[s]))
                 text == messageBuffers[s] \o Decode(data)
             IN  PendingFrame(text)
                 => emitted' = emitted /\ messageBuffers'[s] = text]_vars

\* A frame of ten bytes is pending, with an LF among the bytes that arrived.
C5_Witness ==
    \E s \in connections :
        /\ PendingFrame(messageBuffers[s])
        /\ Includes(messageBuffers[s], "\n")
        /\ StartsWith(messageBuffers[s], <<"1", "0", " ">>)
        /\ EmittedOf(s) = <<>>

\* C6: on a connection whose peer sends LF-, CR LF- or NUL-terminated
\* messages, every string handed to processMessage is one of the messages
\* the peer sent.
C6_DelimitedMessagesIntact ==
    \A s \in Sockets :
        sent[s].framing \in {"lf", "crlf", "nul"}
        => Range(EmittedOf(s)) \subseteq Range(sent[s].msgs)

\* C7: every string handed to processMessage leaves exactly one row in the
\* logs table.
C7_EveryMessageStored == Len(logs) = Len(emitted)

\* C8: for a string that does not start with "<", has no ">", or has no
\* integer between "<" and ">", parse returns the fallback record; and parse
\* never returns a NaN facility or severity.
C8_FallbackWhenNoPriority ==
    parseOut # <<>>
    => LET t     == Trim(parseIn)
           close == IndexOf(t, ">")
       IN  /\ (\/ ~StartsWith(t, <<"<">>)
               \/ close = -1
               \/ ParseInt(Substring(t, 1, close)) = NaN)
              => parseOut[1] = FallbackRecord(t)
           /\ parseOut[1].facility # NaN
           /\ parseOut[1].severity # NaN

\* s is a decimal numeral: an optional minus sign and one or more digits.
IsDecimalInteger(s) ==
    LET u == IF s # <<>> /\ Head(s) = "-" THEN Tail(s) ELSE s
    IN  u # <<>> /\ LeadingRun(u, Digits) = Len(u)

\* C9: for a string that starts with "<P>", P a decimal integer, the record
\* has facility P div 8 and severity P mod 8, so facility * 8 + severity = P,
\* and for P in 0..191 facility is in 0..23 and severity in 0..7.
C9_PriorityDecoding ==
    LET close == IndexOf(parseIn, ">")
        text  == Substring(parseIn, 1, close)
        P     == ParseInt(text)[1]
        rec   == parseOut[1]
    IN  (parseOut # <<>> /\ StartsWith(parseIn, <<"<">>) /\ close > 0
            /\ IsDecimalInteger(text))
        => /\ rec.facility = Num(P \div 8)
           /\ rec.severity = Num(P % 8)
           /\ rec.facility[1] * 8 + rec.severity[1] = P
           /\ P \in 0..191 => rec.facility[1] \in 0..23 /\ rec.severity[1] \in 0..7

\* The same, for P >= 0.
NonNegativePriorityDecoding ==
    LET close == IndexOf(parseIn, ">")
        text  == Substring(parseIn, 1, close)
        P     == ParseInt(text)[1]
        rec   == parseOut[1]
    IN  (parseOut # <<>> /\ StartsWith(parseIn, <<"<">>) /\ close > 0
            /\ IsDecimalInteger(text) /\ P >= 0)
        => /\ rec.facility = Num(P \div 8)
           /\ rec.severity = Num(P % 8)
           /\ rec.facility[1] * 8 + rec.severity[1] = P
           /\ P \in 0..191 => rec.facility[1] \in 0..23 /\ rec.severity[1] \in 0..7

\* <131> was decoded to facility 16, severity 3.
Priority131Witness ==
    /\ parseOut # <<>>
    /\ StartsWith(parseIn, <<"<", "1", "3", "1", ">">>)
    /\ parseOut[1].facility = Num(16) /\ parseOut[1].severity = Num(3)

\* C10: checkThreshold(value, threshold, operator) is the comparison the
\* operator names, and false for a string that names none.
C10_CheckThreshold ==
    thrOut # <<>>
    => thrOut[1] = (\/ thrIn.operator = "gt"  /\ thrIn.value > thrIn.threshold
                    \/ thrIn.operator = "gte" /\ thrIn.value >= thrIn.threshold
                    \/ thrIn.operator = "lt"  /\ thrIn.value < thrIn.threshold
                    \/ thrIn.operator = "lte" /\ thrIn.value <= thrIn.threshold
                    \/ thrIn.operator = "eq"  /\ thrIn.value = thrIn.threshold)

\* With value = threshold = 10, gte has fired.
C10_Witness ==
    /\ thrIn = [value |-> 10, threshold |-> 10, operator |-> "gte"]
    /\ thrOut = <<TRUE>>

\* With value = threshold = 10, gt has not fired.
C10_WitnessGt ==
    /\ thrIn = [value |-> 10, threshold |-> 10, operator |-> "gt"]
    /\ thrOut = <<FALSE>>

\* The rules of the checkRule calls that have ended in the current batch.
EvaluatedRules == [k \in 1..Len(evaluated) |-> evaluated[k].rule]

\* C11: the checkRule calls of a batch are made for the enabled rules in
\* configured order, each once, and when the batch has ended every enabled
\* rule has had its call, whichever of the calls ended in an exception.
C11_FaultIsolation ==
    /\ IsPrefix(EvaluatedRules, getAlertRules)
    /\ (runs = <<>> /\ evaluated # <<>>) => EvaluatedRules = getAlertRules

\* A batch has ended in which the call for the first rule threw (the alert
\* history write failed) and the second rule was evaluated after it.
C11_Witness ==
    /\ runs = <<>>
    /\ Len(evaluated) = 2
    /\ evaluated[1].event = "historyError"
    /\ evaluated[2].rule = getAlertRules[2]

\* C12: whenever isRunning is set it is cleared again later (after an
\* evaluation that threw and after a webhook call that ended at its timeout
\* as well), and a timer tick that arrives while isRunning is clear is
\* serviced: it starts a batch.
C12_BatchTerminates ==
    /\ isRunning ~> (~isRunning /\ runs = <<>>)
    /\ [][(~isRunning /\ lastEvent' \in {"batchStart", "emptyBatch", "tickSkipped"})
           => lastEvent' # "tickSkipped"]_vars

\* A batch in which an evaluation threw (its alert history write failed) has
\* ended, and the tick after it has started the next batch.
C12_Witness ==
    /\ lastEvent = "batchStart"
    /\ isRunning
    /\ alertHistory = <<>>
    /\ \E n \in DOMAIN lastAlertTimes : lastAlertTimes[n] # <<>>

\* The events with which a step that calls checkRule ends.
CheckRuleEvents == {"cooldown", "error", "dispatch", "noAlert"}

\* The time recorded for the rule of the last step in the cooldown tracker.
LastFire == lastAlertTimes[config.alerts[lastRule].name]

\* The cooldown of the rule of the last step, in milliseconds.
CooldownMs == parseTimeWindow(CooldownOf(config.alerts[lastRule]))[1]

\* C13: a checkRule call for a rule whose tracker entry is L is suppressed
\* exactly when now < L + cooldown; at now = L + cooldown and later it issues
\* its query and, the threshold comparison being true, goes on to dispatch.
C13_StrictCooldownGate ==
    [][lastEvent' \in CheckRuleEvents
       => /\ (lastEvent' = "cooldown")
                <=> (LastFire' # <<>> /\ now < LastFire'[1] + CooldownMs')
          /\ lastEvent' # "cooldown"
                => /\ lastQuery' # <<>>
                   /\ (lastEvent' = "dispatch")
                        <=> checkThreshold(runAlertQuery(lastQuery'[1]),
                                           config.alerts[lastRule'].threshold,
                                           config.alerts[lastRule'].operator)]_vars

\* A rule is evaluated exactly at the end of its cooldown and fires again.
C13_Witness ==
    /\ lastEvent = "dispatch"
    /\ LastFire # <<>>
    /\ now = LastFire[1] + CooldownMs

\* C14: a checkRule call that finds its rule in cooldown issues no query,
\* starts no webhook call and leaves the cooldown tracker and the alert
\* history as they were.
C14_CooldownGateFirst ==
    [][lastEvent' = "cooldown"
       => /\ lastQuery' = <<>>
          /\ evaluated'[Len(evaluated')].query = "none"
          /\ \A i \in 1..Len(runs') : runs'[i].pc # "fetch"
          /\ lastAlertTimes' = lastAlertTimes
          /\ alertHistory' = alertHistory]_vars

\* A rule that has fired before is found in cooldown.
C14_Witness ==
    /\ lastEvent = "cooldown"
    /\ alertHistory # <<>>
    /\ evaluated # <<>>
    /\ evaluated[Len(evaluated)].event = "cooldown"

\* C15: when the COUNT statement of a checkRule call fails, the call does
\* not throw: it goes on with count 0, dispatches exactly when the rule's
\* comparison holds for 0 (reporting the count 0), and the loop of the batch
\* goes on to the rules after it.
C15_QueryFailureCountsZero ==
    [][(lastEvent' \in CheckRuleEvents /\ lastQuery' # <<>> /\ ~lastQuery'[1].ok)
       => /\ lastEvent' # "error"
          /\ (lastEvent' = "dispatch")
                <=> checkThreshold(0, config.alerts[lastRule'].threshold,
                                   config.alerts[lastRule'].operator)
          /\ \A i \in 1..Len(runs') :
                 runs'[i].pc = "fetch" => runs'[i].count = 0
          /\ IsPrefix(EvaluatedRules', getAlertRules)
          /\ runs' = <<>> => EvaluatedRules' = getAlertRules]_vars

\* A batch has ended in which the query of the first rule failed, the rule
\* fired on the count 0, and the second rule ran its own query after it.
C15_Witness ==
    /\ runs = <<>>
    /\ Len(evaluated) = 2
    /\ evaluated[1].query = "failed"
    /\ evaluated[1].event = "success"
    /\ evaluated[2].query # "none"

\* The events with which a step that ends a checkRule call ends.
EvaluationEndEvents ==
    {"cooldown", "error", "noAlert", "fail", "success", "historyError"}

\* C16: in a step that ends a checkRule call, the cooldown tracker is
\* updated exactly when one record, with the rule's name, the count of the
\* query and the window of the query, is appended to the alert history, and
\* exactly when sendAlert reported success, a failing alert history write
\* included.
C16_CooldownIffHistoryIffSuccess ==
    [][lastEvent' \in EvaluationEndEvents
       => LET updated  == lastAlertTimes' # lastAlertTimes
              appended == /\ Len(alertHistory') = Len(alertHistory) + 1
                          /\ SubSeq(alertHistory', 1, Len(alertHistory)) = alertHistory
                          /\ alertHistory'[Len(alertHistory')].alertName
                                = config.alerts[lastRule'].name
              success  == lastEvent' \in {"success", "historyError"}
          IN  /\ updated <=> appended
              /\ appended <=> success
              /\ ~appended => alertHistory' = alertHistory]_vars

\* The type of the last handler call observed for socket s.
LastCall(s) == delivered[s][Len(delivered[s])].type

\* C17: a close event of a connection hands the trimmed retained buffer to
\* processMessage as one message, after every message of that connection
\* handed over before, when the buffer holds something other than white
\* space, and hands over nothing otherwise; a message handed over while the
\* store is open and whose record insertLog accepts is appended to the logs
\* table; and the connection and its buffer are removed.
C17_CloseFlush ==
    [][\A s \in connections :
          (s \notin connections' /\ LastCall(s)' = "close")
          => LET t == Trim(messageBuffers[s])
             IN  /\ t # <<>> => EmittedOf(s)' = Append(EmittedOf(s), t)
                 /\ t = <<>> => EmittedOf(s)' = EmittedOf(s)
                 /\ (t # <<>> /\ ~insertLogThrows(LogEntry(t)))
                       => \E k \in (Len(logs) + 1)..Len(logs') : logs'[k].raw = t
                 /\ s \notin DOMAIN messageBuffers']_vars

\* A peer sent a LF b and closed: a was handed over by the data handler, b by
\* the close handler after it.
C17_Witness ==
    \E s \in closed :
        /\ sent[s].framing = "bare"
        /\ LastCall(s) = "close"
        /\ EmittedOf(s) = <<<<"a">>, <<"b">>>>
        /\ \E k \in 1..Len(logs) : logs[k].raw = <<"b">>

\* C18: when stop() closes the store, the trailing content of every
\* connection that was open with a buffer holding something other than
\* white space has been appended to the logs table.
C18_ShutdownFlushBeforeClose ==
    [][(~dbClosed /\ dbClosed')
       => \A s \in connections :
             Trim(messageBuffers[s]) # <<>>
             => \E k \in (Len(logs) + 1)..Len(logs') :
                    logs'[k].raw = Trim(messageBuffers[s])]_vars

\* The least position from which m occurs in text at or after from, 0 if none.
FindFrom(text, m, from) ==
    LET at == {i \in from..(Len(text) - Len(m) + 1) :
                  SubSeq(text, i, i + Len(m) - 1) = m}
    IN  IF at = {} THEN 0 ELSE CHOOSE i \in at : \A j \in at : i <= j

\* msgs occur in text one after the other, without overlap, from position
\* from on: the position after the last of them, taking each as early as
\* possible; -1 if they do not.
RECURSIVE EmbedEnd(_, _, _)
EmbedEnd(msgs, text, from) ==
    IF msgs = <<>> THEN from
    ELSE LET i == FindFrom(text, Head(msgs), from)
         IN  IF i = 0 THEN -1
             ELSE EmbedEnd(Tail(msgs), text, i + Len(Head(msgs)))

\* The raw column of the logs table.
RawLogs == [k \in 1..Len(logs) |-> logs[k].raw]

\* C19: the strings a data event hands to processMessage lie in the text of
\* the connection (retained buffer plus decoded chunk) one after the other in
\* the order of the calls, the text retained for later events lies after all
\* of them, and the rows of every event are appended to the logs table after
\* all earlier rows and in the order of the calls.
C19_StreamOrderPreserved ==
    [][/\ IsPrefix(emitted, emitted')
       /\ LET new == [k \in 1..(Len(emitted') - Len(emitted)) |->
                         emitted'[Len(emitted) + k].msg]
          IN  RawLogs' = RawLogs \o SelectSeq(new,
                            LAMBDA m : ~insertLogThrows(LogEntry(m)))
       /\ \A s \in connections :
             wire'[s] # wire[s]
             => LET data == SubSeq(wire[s], 1, Len(wire[s]) - Len(wire'[s]))
                    text == messageBuffers[s] \o Decode(data)
                    new  == SubSeq(EmittedOf(s)', Len(EmittedOf(s)) + 1,
                                   Len(EmittedOf(s)'))
                    end  == EmbedEnd(new, text, 1)
                    kept == messageBuffers'[s]
                IN  /\ end # -1
                    /\ Len(kept) <= Len(text) - end + 1
                    /\ kept = SubSeq(text, Len(text) - Len(kept) + 1, Len(text))]_vars

\* One data event brought a LF b LF: a and b were stored, a before b.
C19_Witness ==
    \E s \in connections :
        /\ Len(delivered[s]) = 2
        /\ delivered[s][2] = [type |-> "data", data |-> <<"a", "\n", "b", "\n">>]
        /\ RawLogs = <<MsgA, MsgB>>

\* A connection on its own after one more handler call e: whether it is
\* open, its buffer, and the strings handed to processMessage for it.
AloneStep(st, e) ==
    CASE e.type = "open"  -> [st EXCEPT !.open = TRUE, !.buffer = <<>>]
      [] e.type = "data"  ->
            LET r == DecodeLoop(st.buffer \o Decode(e.data))
            IN  [st EXCEPT !.buffer = r.remaining, !.out = st.out \o r.out]
      [] e.type = "close" ->
            [open |-> FALSE, buffer |-> <<>>, out |-> st.out \o Flush(st.buffer)]
      [] e.type = "error" -> [st EXCEPT !.open = FALSE, !.buffer = <<>>]

\* A connection that receives the handler calls of calls and no other
\* connection exists.
RECURSIVE Alone(_)
Alone(calls) ==
    IF calls = <<>> THEN [open |-> FALSE, buffer |-> <<>>, out |-> <<>>]
    ELSE AloneStep(Alone(SubSeq(calls, 1, Len(calls) - 1)), calls[Len(calls)])

\* C20: a handler call for one connection leaves the buffer of every other
\* connection, and the strings handed to processMessage for it, as they
\* were; and under every interleaving the buffer of a connection and the
\* strings handed over for it are those of the same handler calls made with
\* no other connection present.
C20_BuffersIsolated ==
    /\ [](\A s \in DOMAIN delivered :
            /\ EmittedOf(s) = Alone(delivered[s]).out
            /\ (s \in connections) <=> Alone(delivered[s]).open
            /\ s \in connections => messageBuffers[s] = Alone(delivered[s]).buffer)
    /\ [][\A a \in DOMAIN delivered : \A b \in connections \ {a} :
              (delivered'[a] # delivered[a] /\ delivered'[b] = delivered[b])
              => /\ b \in connections'
                 /\ messageBuffers'[b] = messageBuffers[b]
                 /\ EmittedOf(b)' = EmittedOf(b)]_vars

\* Two connections are open, each has had a message handed over and each
\* retains text of its own.
C20_Witness ==
    /\ connections = {"s1", "s2"}
    /\ sent["s1"].framing = "bare" /\ sent["s2"].framing = "octet"
    /\ EmittedOf("s1") = <<MsgA>> /\ messageBuffers["s1"] = MsgB
    /\ messageBuffers["s2"] = <<"1", " ">>

\* The rules of config.alerts whose enabled flag is false.
DisabledRules == {r \in 1..Len(config.alerts) : ~config.alerts[r].enabled}

\* The names that only disabled rules carry.
DisabledNames ==
    {config.alerts[r].name : r \in DisabledRules}
        \ {config.alerts[r].name : r \in (1..Len(config.alerts)) \ DisabledRules}

\* C21: a rule whose enabled flag is false is in no batch: no runChecks
\* execution iterates it, no checkRule call is made or has ended for it (so
\* that no query is issued and no webhook dispatched for it), it never had a
\* successful dispatch, and its name has no cooldown entry and no row in the
\* alert history.
C21_DisabledNeverEvaluated ==
    /\ \A i \in 1..Len(runs) : Range(runs[i].rules) \cap DisabledRules = {}
    /\ \A k \in 1..Len(evaluated) : evaluated[k].rule \notin DisabledRules
    /\ lastRule \notin DisabledRules
    /\ \A r \in DisabledRules : lastSuccess[r] = <<>>
    /\ \A n \in DisabledNames :
          /\ lastAlertTimes[n] = <<>>
          /\ \A k \in 1..Len(alertHistory) : alertHistory[k].alertName # n

\* A batch of a configuration with a disabled rule has ended, and the
\* enabled rule that follows the disabled one was dispatched and recorded.
C21_Witness ==
    /\ DisabledRules # {}
    /\ runs = <<>>
    /\ evaluated # <<>>
    /\ alertHistory # <<>>
    /\ lastEvent = "success"

\* C22: when alerting is disabled in the configuration the engine never has
\* a timer, before and after start() and however much time passes; no batch
\* runs, no checkRule call is made, no query is issued, and the cooldown
\* tracker and the alert history stay empty.
C22_DisabledAlertingNeverRuns ==
    ~config.alerting.enabled
    => /\ ~checkInterval
       /\ ~isRunning
       /\ runs = <<>>
       /\ evaluated = <<>>
       /\ lastQuery = <<>>
       /\ lastRule = 0
       /\ lastEvent \in {"init", "start", "stop", "clock"}
       /\ alertHistory = <<>>
       /\ \A n \in DOMAIN lastAlertTimes : lastAlertTimes[n] = <<>>

\* The engine was started with alerting disabled and an enabled rule in the
\* configuration, and the clock has reached its last value.
C22_Witness ==
    /\ ~config.alerting.enabled
    /\ getAlertRules # <<>>
    /\ phase = "started"
    /\ now = MaxClockSteps * ClockStepMs

\* The checkRule calls of the current batch that ended after a webhook
\* dispatch, as positions in evaluated.
Dispatched ==
    {k \in 1..Len(evaluated) :
        evaluated[k].event \in {"success", "fail", "historyError"}}

\* C23: at most one webhook dispatch is awaited at any time; the rule a
\* runChecks execution is at is the one that follows, in configured order,
\* the rules whose checkRule calls have ended (dispatch included), so the
\* dispatches of a batch are in configured order; and a checkRule call begins
\* (cooldown check, query, dispatch) only in a state where no dispatch is
\* awaited.
C23_SequentialInOrder ==
    /\ [](/\ Cardinality({i \in 1..Len(runs) : runs[i].pc = "fetch"}) <= 1
          /\ \A i \in 1..Len(runs) :
                /\ runs[i].rules = getAlertRules
                /\ EvaluatedRules = SubSeq(getAlertRules, 1, runs[i].idx - 1)
          /\ \A k, l \in Dispatched :
                k < l => evaluated[k].rule < evaluated[l].rule)
    /\ [][lastEvent' \in {"cooldown", "noAlert", "dispatch", "error"}
          => \A i \in 1..Len(runs) : runs[i].pc # "fetch"]_vars

\* The second rule of the configuration is being dispatched after the
\* dispatch of the first rule has ended in the same batch.
C23_Witness ==
    /\ Len(runs) = 1
    /\ runs[1].pc = "fetch"
    /\ runs[1].idx = 2
    /\ Dispatched = {1}

\* A step in which a runChecks execution begins: a fresh execution, at its
\* first rule, takes a place in runs that held none or another one.
BatchBegins ==
    \E i \in 1..Len(runs') :
        /\ runs'[i] = NewRun(getAlertRules)
        /\ (i > Len(runs) \/ runs[i] # NewRun(getAlertRules))

\* C24: a runChecks execution begins only in the step of a timer tick that
\* found the engine idle, and one such tick begins at most one execution (so
\* the executions ever begun are no more than the ticks that fired while
\* idle); a tick that finds a batch running leaves the engine as it is; and
\* the step that ends a batch leaves the engine idle with no execution in
\* progress, also when ticks were skipped during the batch.
C24_NoCatchUp ==
    [][/\ Len(runs') <= Len(runs) + 1
       /\ (BatchBegins \/ Len(runs') > Len(runs))
          => /\ lastEvent' = "batchStart"
             /\ ~isRunning /\ checkInterval
             /\ Len(runs') = Len(runs) + 1
       /\ lastEvent' = "tickSkipped"
          => /\ isRunning
             /\ UNCHANGED <<runs, isRunning, evaluated, lastAlertTimes,
                            alertHistory>>
       /\ Len(runs') < Len(runs) => (runs' = <<>> /\ ~isRunning')]_vars

\* A batch during which a tick was skipped has just ended, the timer is
\* still set, and the engine is idle.
C24_Witness ==
    /\ tickSkipped
    /\ checkInterval
    /\ runs = <<>>
    /\ ~isRunning
    /\ lastEvent \in {"cooldown", "noAlert", "success", "fail", "historyError"}

\* The rows of the table of a runAlertQuery call whose timestamp lies in
\* [startTime, endTime].
InWindow ==
    {row \in qryIn.table :
        row.timestamp >= qryIn.startTime /\ row.timestamp <= qryIn.endTime}

\* C25: whatever predicate a runAlertQuery call is given, the rows its
\* statement counts all have their timestamp in [startTime, endTime], and the
\* count it returns is no more than the number of rows in that window.
C25_TimeBoundAlwaysApplies ==
    qryOut # <<>>
    => /\ qryOut[1].counted \subseteq InWindow
       /\ qryOut[1].count <= Cardinality(InWindow)

\* The parentheses of a predicate pair up within the predicate.
RECURSIVE Balanced(_, _)
Balanced(tokens, depth) ==
    IF tokens = <<>> THEN depth = 0
    ELSE IF Head(tokens) = "(" THEN Balanced(Tail(tokens), depth + 1)
    ELSE IF Head(tokens) = ")"
    THEN depth > 0 /\ Balanced(Tail(tokens), depth - 1)
    ELSE Balanced(Tail(tokens), depth)

\* The time bound applies to every predicate whose parentheses pair up: the
\* statement counts the rows of the window that satisfy the predicate.
BalancedPredicateWithinWindow ==
    (qryOut # <<>> /\ Balanced(qryIn.predicate, 0))
    => /\ qryOut[1].counted \subseteq InWindow
       /\ qryOut[1].count = Cardinality(qryOut[1].counted)

\* A predicate with OR counted rows of the window only, with a row outside
\* the window in the table that satisfies the predicate.
BalancedPredicateWitness ==
    /\ qryOut # <<>>
    /\ qryIn.predicate = <<"severity <= 2", "OR", "1 = 1">>
    /\ qryOut[1].count = 2
    /\ qryIn.table \ InWindow # {}

\* The configuration source holds a rule whose window or cooldown is not in
\* the format of the schema.
InvalidFormat ==
    rawConfig # <<>> /\ ~SchemaAccepts(rawConfig[1])

\* C26: a service whose configuration source holds a rule with an invalid
\* window or cooldown never starts: its engine stays as constructed, with no
\* timer, under that configuration and under any other.
C26_InvalidFormatIsFatal ==
    InvalidFormat => (phase = "constructed" /\ ~checkInterval)

\* The invalid value is not evaluated: the rules the engine holds all have a
\* window and a cooldown that parseTimeWindow accepts, and no checkRule call
\* ends in its exception.
InvalidFormatNeverEvaluated ==
    /\ \A r \in 1..Len(config.alerts) :
          /\ parseTimeWindow(config.alerts[r].window) # <<>>
          /\ parseTimeWindow(CooldownOf(config.alerts[r])) # <<>>
    /\ lastEvent # "error"

\* A service whose source holds an invalid window runs with the default
\* configuration: its timer fired and ran an empty batch.
InvalidFormatWitness ==
    /\ InvalidFormat
    /\ config = DefaultConfig
    /\ lastEvent = "emptyBatch"

InfoAndWarningWitness ==
    /\ hookOut # <<>>
    /\ \/ /\ hookIn.actualValue = 11 /\ hookIn.threshold = 10
          /\ hookOut[1].payload.severity = "info"
       \/ /\ hookIn.actualValue = 3 /\ hookIn.threshold = 2
          /\ hookOut[1].payload.severity = "warning"

DigitsThenSpace(text) ==
    LET nd == LeadingRun(text, Digits)
    IN  nd >= 1 /\ CharAt(text, nd + 1) = " "

\* The first line of text: what precedes its first LF, less one CR.
FirstLine(text) == DropCR(SubSeq(text, 1, IndexOf(text, "\n")))

\* C29: a data event whose text (the retained buffer plus the decoded chunk)
\* does not start with digits followed by a space is not handled by octet
\* counting: when the text holds an LF the line rule applies, so the first
\* string handed to processMessage is the first line of the text (trimmed),
\* as for the text "12" LF "hello" LF, whose first line is "12".
C29_OctetOnlyAfterDigitsAndSpace ==
    [][\A s \in connections :
          wire'[s] # wire[s]
          => LET data == SubSeq(wire[s], 1, Len(wire[s]) - Len(wire'[s]))
                 text == messageBuffers[s] \o Decode(data)
             IN  (/\ ~DigitsThenSpace(text)
                  /\ Includes(text, "\n")
                  /\ Trim(FirstLine(text)) # <<>>)
                 => /\ Len(emitted') > Len(emitted)
                    /\ emitted'[Len(emitted) + 1].msg = Trim(FirstLine(text))]_vars

\* Digits followed by NUL are not taken for a length prefix: a peer that
\* sends NUL-terminated messages, a line of digits among them, has had each
\* of them handed to processMessage once its stream is delivered.
DigitsThenNulNotOctet ==
    \A s \in connections :
        (/\ sent[s].framing = "nul"
         /\ Range(sent[s].msgs) \subseteq {Hello, PriM, Twelve}
         /\ wire[s] = <<>>)
        => EmittedOf(s) = sent[s].msgs

\* 12 NUL hello NUL was delivered and both messages were emitted.
DigitsThenNulWitness ==
    \E s \in connections :
        /\ sent[s] = [framing |-> "nul", msgs |-> <<Twelve, Hello>>]
        /\ EmittedOf(s) = <<Twelve, Hello>>

\* C30: on a connection whose peer sends octet-counted frames, the k-th string
\* handed to processMessage consists of exactly the bytes of the k-th frame's
\* payload (the N bytes after its prefix), also when the payload holds a
\* two-byte character and when the two bytes arrive in different chunks; and
\* once the whole stream is delivered every frame has been handed over and
\* no text is retained.
C30_DeclaredLengthCountsBytes ==
    \A s \in Sockets :
        sent[s].framing = "octet"
        => /\ Len(EmittedOf(s)) <= Len(sent[s].msgs)
           /\ \A k \in 1..Len(EmittedOf(s)) :
                 k <= Len(sent[s].msgs)
                 => Utf8(EmittedOf(s)[k]) = Utf8(sent[s].msgs[k])
           /\ (wire[s] = <<>> /\ s \in connections)
              => /\ Len(EmittedOf(s)) = Len(sent[s].msgs)
                 /\ messageBuffers[s] = <<>>

\* C31: once the engine is stopped (by stop() or by the shutdown of the
\* service) it has no timer and no runChecks execution begins; and an
\* execution ends only by the return of the checkRule call of its last rule,
\* so that one in progress at the stop still evaluates its remaining rules.
C31_StopLetsBatchFinish ==
    /\ [](phase \in {"stopped", "exited"} => ~checkInterval)
    /\ [][/\ phase \in {"stopped", "exited"} => ~BatchBegins
          /\ Len(runs') < Len(runs)
             => /\ lastEvent' \in {"cooldown", "noAlert", "error", "success",
                                   "fail", "historyError"}
                /\ EvaluatedRules' = getAlertRules]_vars

\* stop() alone was called during a batch, and after it the batch has ended
\* the evaluation of its first rule and gone on to its second.
StoppedBatchGoesOnWitness ==
    /\ phase = "stopped"
    /\ Len(runs) = 1
    /\ runs[1].idx = 2
    /\ lastEvent \in {"cooldown", "noAlert", "success", "fail", "historyError"}

\* The text of the data event of a step for socket s: the retained buffer
\* followed by the decoded chunk.
TextOf(s) ==
    messageBuffers[s]
        \o Decode(SubSeq(wire[s], 1, Len(wire[s]) - Len(wire'[s])))

\* The strings a step hands to processMessage.
NewlyEmitted ==
    [k \in 1..(Len(emitted') - Len(emitted)) |-> emitted'[Len(emitted) + k].msg]

NonEmpty(segments) == SelectSeq(segments, LAMBDA m : m # <<>>)

\* C32: a data event whose text does not start with a length prefix (digits
\* followed by a space) and holds an LF hands to processMessage the complete
\* lines that are not empty, in order and nothing else, and retains the text
\* after the last LF; a line ends at its LF, less one CR before it, also when
\* the CR came in an earlier chunk.
C32_LineRule ==
    [][\A s \in connections :
          wire'[s] # wire[s]
          => LET text  == TextOf(s)
                 lines == SplitLines(text)
             IN  (~DigitsThenSpace(text) /\ Includes(text, "\n"))
                 => /\ NewlyEmitted = NonEmpty(AllButLast(lines))
                    /\ messageBuffers'[s] = lines[Len(lines)]]_vars

\* The line rule as the handler applies it: when the text has no match of
\* the handler's prefix pattern and holds an LF, and the text after the last
\* LF is left alone by the next pass of the loop (no prefix match, no NUL),
\* the complete lines are handed over trimmed, those that are empty after
\* trimming are not, and the text after the last LF is retained.
LineRuleTrimmed ==
    [][\A s \in connections :
          wire'[s] # wire[s]
          => LET text  == TextOf(s)
                 lines == SplitLines(text)
                 last  == lines[Len(lines)]
             IN  (/\ LengthPrefix(text) = 0
                  /\ Includes(text, "\n")
                  /\ LengthPrefix(last) = 0 /\ ~Includes(last, "NUL"))
                 => /\ NewlyEmitted = TrimmedNonEmpty(AllButLast(lines))
                    /\ messageBuffers'[s] = last]_vars

\* The CR of a CR LF has arrived and is retained with its line, and the LF
\* is the next byte of the stream.
CrLfSplitWitness ==
    \E s \in connections :
        /\ messageBuffers[s] = <<"a", "\r">>
        /\ wire[s] = <<"\n">>
        /\ EmittedOf(s) = <<>>

\* C33: a data event whose text does not start with a length prefix (digits
\* followed by a space), holds no LF and holds a NUL hands to processMessage
\* the NUL-separated segments that are not empty, except the last, in order
\* and nothing else, and retains the last segment.
C33_NulRule ==
    [][\A s \in connections :
          wire'[s] # wire[s]
          => LET text     == TextOf(s)
                 messages == Split(text, "NUL")
             IN  (/\ ~DigitsThenSpace(text)
                  /\ ~Includes(text, "\n")
                  /\ Includes(text, "NUL"))
                 => /\ NewlyEmitted = NonEmpty(AllButLast(messages))
                    /\ messageBuffers'[s] = messages[Len(messages)]]_vars

\* The NUL rule as the handler applies it: when the text has no match of the
\* handler's prefix pattern, no LF and a NUL, and the last segment has no
\* prefix match either, the segments before the last are handed over
\* trimmed, those that are empty after trimming are not, and the last
\* segment is retained.
NulRuleTrimmed ==
    [][\A s \in connections :
          wire'[s] # wire[s]
          => LET text     == TextOf(s)
                 messages == Split(text, "NUL")
                 last     == messages[Len(messages)]
             IN  (/\ LengthPrefix(text) = 0
                  /\ ~Includes(text, "\n")
                  /\ Includes(text, "NUL")
                  /\ LengthPrefix(last) = 0)
                 => /\ NewlyEmitted = TrimmedNonEmpty(AllButLast(messages))
                    /\ messageBuffers'[s] = last]_vars

\* A text with an LF and a NUL is split at its LFs first: what is retained
\* after the data event holds no LF, and a NUL before the last LF is part of
\* the line handed over.
LineRuleBeforeNulRule ==
    [][\A s \in connections :
          wire'[s] # wire[s]
          => LET text == TextOf(s)
             IN  (LengthPrefix(text) = 0 /\ Includes(text, "\n"))
                 => /\ ~Includes(messageBuffers'[s], "\n")
                    /\ \A k \in 1..Len(NewlyEmitted) :
                          k <= Len(TrimmedNonEmpty(AllButLast(SplitLines(text))))
                          => NewlyEmitted[k]
                               = TrimmedNonEmpty(AllButLast(SplitLines(text)))[k]]_vars

\* A line holding a NUL was handed over whole.
NulInsideLineWitness ==
    \E s \in connections : EmittedOf(s) = <<<<"a", "NUL", "a">>>>

\* The space-separated fields of an RFC 5424 message after "<P>1 ".
FieldsOf(rawMessage) ==
    LET t == Trim(rawMessage)
    IN  Split(SubstringFrom(t, IndexOf(t, ">") + 3), " ")

RECURSIVE LoopShortens(_)
LoopShortens(remaining) ==
    \/ remaining = <<>>
    \/ Iteration(remaining).break
    \/ /\ Len(Iteration(remaining).remaining) < Len(remaining)
       /\ LoopShortens(Iteration(remaining).remaining)

\* C35: for every text a data event can start its loop with (what is
\* retained for the connection followed by any chunk of what is still to
\* arrive), every pass of the loop stops it or strictly shortens the
\* remaining text, so the loop ends.
C35_LoopTerminates ==
    \A s \in DOMAIN wire :
        \A n \in 1..Len(wire[s]) :
            LoopShortens((IF s \in connections THEN messageBuffers[s] ELSE <<>>)
                            \o Decode(SubSeq(wire[s], 1, n)))

\* Two frames of length zero were decoded in a row and nothing is left.
ZeroLengthFramesWitness ==
    \E s \in connections :
        /\ EmittedOf(s) = <<<<>>, <<>>>>
        /\ messageBuffers[s] = <<>>
        /\ wire[s] = <<>>

\* C36: no string handed to processMessage is empty or consists of white
\* space only.
C36_NoBlankMessage ==
    \A k \in 1..Len(emitted) : Trim(emitted[k].msg) # <<>>

\* What the line rule, the NUL rule and the flush on close hand over is
\* never blank: a step taken while neither the retained text nor the bytes
\* still to arrive hold a digit, so that no text has a length prefix, hands
\* over no blank string.
NoBlankWithoutLengthPrefix ==
    [][(\A s \in connections :
           /\ \A i \in 1..Len(messageBuffers[s]) : messageBuffers[s][i] \notin Digits
           /\ \A i \in 1..Len(wire[s]) : wire[s][i] \notin Digits)
       => \A k \in 1..Len(NewlyEmitted) : Trim(NewlyEmitted[k]) # <<>>]_vars

\* A text without digits was flushed on close after a line of it had been
\* handed over.
FlushAfterLineWitness ==
    \E s \in closed :
        /\ Len(EmittedOf(s)) = 2
        /\ \A k \in 1..2 : \A i \in 1..Len(EmittedOf(s)[k]) :
              EmittedOf(s)[k][i] \notin Digits

\* The cooldown entry consulted for the list entry r is the one the last
\* successful dispatch of r itself wrote.
OwnCooldownEntry(r) ==
    /\ lastSuccess[r] # <<>>
    /\ lastAlertTimes[config.alerts[r].name] = lastSuccess[r]

\* C37: when the evaluation of a rule ends because the rule is in cooldown,
\* the cooldown entry that was consulted had been written by a successful
\* dispatch of that same entry of the rule list, and by no other rule's.
C37_CooldownOnlyFromOwnFire ==
    lastEvent = "cooldown" => OwnCooldownEntry(lastRule)

\* The same for the rule lists in which no two rules have the same name.
CooldownOnlyFromOwnFireDistinctNames ==
    (\A a, b \in 1..Len(config.alerts) :
        config.alerts[a].name = config.alerts[b].name => a = b)
    => (lastEvent = "cooldown" => OwnCooldownEntry(lastRule))

\* The second of two rules with different names is in cooldown after its own
\* fire, and the first has fired as well.
BothInCooldownWitness ==
    /\ lastEvent = "cooldown" /\ lastRule = 2
    /\ config.alerts[1].name # config.alerts[2].name
    /\ lastSuccess[1] # <<>> /\ lastSuccess[2] # <<>>

\* The COUNT statement of the checkRule call that has just run failed.
QueryJustFailed == lastQuery # <<>> /\ ~lastQuery[1].ok

FailedQueryNoAlertWitness ==
    /\ QueryJustFailed
    /\ lastEvent = "noAlert"
    /\ config.alerts[lastRule].operator = "gt"

C39_OneLogStore ==
    LET ingested == files[SyslogServerDb]
    IN  /\ svcEvent = "count"
           => svcOut[1] = Len(SelectSeq(ingested, InAlertWindow))
        /\ svcEvent = "cleanup"
           => \A k \in 1..Len(ingested) : ~BeforeCutoff(ingested[k])
        /\ svcEvent = "logs"
           => /\ svcOut[1].count = Len(ingested)
              /\ svcOut[1].logs = Range(ingested)

\* The same while no database path, or the default one, is configured; and
\* the evaluator counts in the ingestion store whatever is configured.
OneLogStoreAtDefaultPath ==
    /\ dbPath \in {<<>>, <<DefaultPath>>} => C39_OneLogStore
    /\ svcEvent = "count"
       => svcOut[1] = Len(SelectSeq(files[SyslogServerDb], InAlertWindow))

\* With the default path, /logs returned two rows that ingestion stored.
LogsSeenAtDefaultPathWitness ==
    /\ dbPath = <<>>
    /\ svcEvent = "logs"
    /\ svcOut[1].count = 2
    /\ Len(files[SyslogServerDb]) = 2

\* The last handler call observed for socket s was its error handler.
EndedByError(s) ==
    /\ delivered[s] # <<>>
    /\ delivered[s][Len(delivered[s])].type = "error"

\* C40: the connections that hold a buffer are the open connections, in
\* every state; and the error handler of a connection removes the connection
\* and its buffer and hands nothing to processMessage, so that what was
\* retained is not stored.
C40_ErrorDiscardsBuffer ==
    /\ [](DOMAIN messageBuffers = connections)
    /\ [][\A s \in connections :
             EndedByError(s)'
             => /\ s \notin connections'
                /\ s \notin DOMAIN messageBuffers'
                /\ emitted' = emitted
                /\ logs' = logs]_vars

\* A connection that had received a LF b ended by an error: a was handed
\* over, b was retained and is gone, and the other connection is still open
\* with its buffer.
ErrorDiscardedWitness ==
    \E s \in closed :
        /\ EndedByError(s)
        /\ sent[s].framing = "bare"
        /\ wire[s] = <<>>
        /\ EmittedOf(s) = <<MsgA>>
        /\ connections # {}
        /\ DOMAIN messageBuffers = connections

====
